---- MODULE Spec2Model ----
(***************************************************************************)
(* Obj2Seq (Paddle port): the prompt-indicator stage of the transformer    *)
(* head.                                                                   *)
(*                                                                         *)
(*   RetentionPolicy.forward   src/models/transformer/prompt_indicator.py  *)
(*   PromptIndicator.forward   src/models/transformer/prompt_indicator.py  *)
(*   Transformer.forward       src/models/transformer/transformer.py       *)
(*                                                                         *)
(* Conventions.  Probabilities and thresholds are integers in thousandths  *)
(* (0.5 is 500); logits are integers in thousandths too, and the sigmoid   *)
(* is tabulated on the logits the model uses.  Tensors are functions over  *)
(* 0-based index sets (image b in 0..B-1, class c in 0..C-1), Python lists *)
(* and 1-D index tensors are sequences.  An optional argument is a record  *)
(* [some |-> FALSE] (None) or [some |-> TRUE, val |-> v].                  *)
(***************************************************************************)
EXTENDS Integers, Sequences, FiniteSets, TLC

(***************************************************************************)
(* Bounds of the model.                                                    *)
(***************************************************************************)
\* images per batch (B) in the enumerated batches
NumImages == 2
\* classes (C) in the enumerated batches
NumClasses == 3
\* refinement layers (num_blocks) range over 1..MaxBlocks
MaxBlocks == 3
\* the largest value of a classifier's weight
MaxWeight == 3
\* the largest number of feature levels
MaxLevels == 3
\* the longest level_preserve list
MaxPreserve == 2
\* the longest init_vectors path, in characters
MaxPathLen == 5
\* args.BLOCK.hidden_dim (line 63)
DModel == 2

Images == 0 .. (NumImages - 1)
Classes == 0 .. (NumClasses - 1)

None == [some |-> FALSE]
Some(v) == [some |-> TRUE, val |-> v]

Min2(a, b) == IF a <= b THEN a ELSE b
Max2(a, b) == IF a >= b THEN a ELSE b

(***************************************************************************)
(* Tensor primitives used by RetentionPolicy.forward.                      *)
(***************************************************************************)

\* F.sigmoid, in thousandths, on the logits the model enumerates:
\* round(1000 / (1 + exp(-x/1000))).
SigmoidTable ==
    [x \in {-2944, -2197, -1386, -405, 0, 405, 2197} |->
        CASE x = -2944 -> 50
          [] x = -2197 -> 100
          [] x = -1386 -> 200
          [] x = -405  -> 400
          [] x = 0     -> 500
          [] x = 405   -> 600
          [] x = 2197  -> 900]

Sigmoid(x) == SigmoidTable[x]

\* paddle.where(cond, x, y), one element
Where(cond, x, y) == IF cond THEN x ELSE y

\* Tensor.clip(max=m), one element
ClipMax(x, m) == IF x > m THEN m ELSE x

\* Mutant of Clip: the upper bound is dropped.
ClipWithoutMax(x, lo, hi) == IF x < lo THEN lo ELSE x

\* Tensor.clip(min=lo, max=hi), one element (paddle requires lo <= hi)
Clip(x, lo, hi) == IF x < lo THEN lo ELSE IF x > hi THEN hi ELSE x

\* Mutant of Slice: the last n elements instead of the first.
SliceFromEnd(seq, n) ==
    SubSeq(seq, Len(seq) - Min2(Max2(n, 0), Len(seq)) + 1, Len(seq))

\* Mutant of Slice: one element short.
SliceOneShort(seq, n) == SubSeq(seq, 1, Min2(n, Len(seq)) - 1)

\* seq[:n] of Python: the first n elements, all of them when n exceeds the
\* length; a negative n counts from the end.
Slice(seq, n) ==
    IF n >= 0 THEN SubSeq(seq, 1, Min2(n, Len(seq)))
    ELSE SubSeq(seq, 1, Max2(Len(seq) + n, 0))

\* Insert v into an ascending sequence.
RECURSIVE InsertAsc(_, _)
InsertAsc(v, seq) ==
    IF seq = <<>> THEN <<v>>
    ELSE IF v <= Head(seq) THEN <<v>> \o seq
    ELSE <<Head(seq)>> \o InsertAsc(v, Tail(seq))

\* Tensor.sort(): the values in ascending order.
RECURSIVE SortAsc(_)
SortAsc(seq) ==
    IF seq = <<>> THEN <<>> ELSE InsertAsc(Head(seq), SortAsc(Tail(seq)))

\* paddle.full_like(t, fill_value=v)
FullLike(seq, v) == [i \in 1 .. Len(seq) |-> v]

\* paddle.concat of a list of 1-D tensors
RECURSIVE Concat(_)
Concat(list) ==
    IF list = <<>> THEN <<>> ELSE Head(list) \o Concat(Tail(list))

\* The orderings of the indices of `rest` by non-increasing value: the next
\* index is any index of `rest` whose value is the largest left.
RECURSIVE DescendingOrders(_, _)
DescendingOrders(row, rest) ==
    IF rest = {} THEN {<<>>}
    ELSE LET top == {c \in rest : \A d \in rest : row[c] >= row[d]}
         IN  UNION { { <<c>> \o tail : tail \in DescendingOrders(row, rest \ {c}) } :
                     c \in top }

\* row.argsort(descending=True): the call does not ask for a stable sort, so
\* every ordering of the indices by non-increasing value is a possible result
\* (equal values may come out in any order).
ArgsortDescending(row) == DescendingOrders(row, DOMAIN row)

(***************************************************************************)
(* RetentionPolicy.forward, line by line.                                  *)
(***************************************************************************)

\* Mutant of LabelProb: the override is applied in evaluation mode too.
LabelProbAnyMode(training_, logits, force) ==
    [b \in DOMAIN logits |-> [c \in DOMAIN logits[b] |->
        IF force.some
        THEN Where(force.val[b][c] >= 0, force.val[b][c], Sigmoid(logits[b][c]))
        ELSE Sigmoid(logits[b][c])]]

\* lines 33-36: the effective probabilities
LabelProb(training_, logits, force) ==
    [b \in DOMAIN logits |-> [c \in DOMAIN logits[b] |->
        IF training_ /\ force.some
        THEN Where(force.val[b][c] >= 0, force.val[b][c], Sigmoid(logits[b][c]))
        ELSE Sigmoid(logits[b][c])]]

\* A bound is a tensor (one entry per image) when num_classes is given and a
\* Python scalar otherwise.
TensorBound(f) == [tensor |-> TRUE, val |-> f]
ScalarBound(x) == [tensor |-> FALSE, val |-> x]

\* lines 37 and 41
MinClasses(cfg_, training_, nc) ==
    LET m == IF training_ THEN cfg_.train_min_classes ELSE cfg_.eval_min_classes
    IN  IF nc.some
        THEN TensorBound([b \in DOMAIN nc.val |-> ClipMax(nc.val[b], m)])
        ELSE ScalarBound(m)

\* Mutant of MaxClasses: num_classes does not clip the maximum.
MaxClassesUnclipped(cfg_, training_, nc) ==
    LET m == IF training_ THEN cfg_.train_max_classes ELSE cfg_.eval_max_classes
    IN  IF nc.some
        THEN [tensor |-> TRUE, val |-> [b \in DOMAIN nc.val |-> m]]
        ELSE [tensor |-> FALSE, val |-> m]

\* lines 38 and 42
MaxClasses(cfg_, training_, nc) ==
    LET m == IF training_ THEN cfg_.train_max_classes ELSE cfg_.eval_max_classes
    IN  IF nc.some
        THEN TensorBound([b \in DOMAIN nc.val |-> ClipMax(nc.val[b], m)])
        ELSE ScalarBound(m)

\* lines 39 and 43
ClassThr(cfg_, training_) ==
    IF training_ THEN cfg_.train_class_thr ELSE cfg_.eval_class_thr

\* Mutant of NumAboveThr: the threshold itself does not count.
NumAboveThrStrict(prob, thr) ==
    [b \in DOMAIN prob |-> Cardinality({c \in DOMAIN prob[b] : prob[b][c] > thr})]

\* line 44
NumAboveThr(prob, thr) ==
    [b \in DOMAIN prob |-> Cardinality({c \in DOMAIN prob[b] : prob[b][c] >= thr})]

\* Mutant of NumTrain: the branches of the first where are exchanged.
NumTrainSwapped(above, mn, mx) ==
    IF mn.tensor
    THEN LET first == [b \in DOMAIN above |->
                          Where(above[b] > mn.val[b], mn.val[b], above[b])]
         IN  [b \in DOMAIN above |->
                 Where(above[b] < mx.val[b], first[b], mx.val[b])]
    ELSE [b \in DOMAIN above |-> Clip(above[b], mn.val, mx.val)]

\* Mutant of NumTrain: the second where of the tensor path is left out.
NumTrainUncapped(above, mn, mx) ==
    IF mn.tensor
    THEN [b \in DOMAIN above |->
             Where(above[b] > mn.val[b], above[b], mn.val[b])]
    ELSE [b \in DOMAIN above |-> Clip(above[b], mn.val, mx.val)]

\* lines 45-50
NumTrain(above, mn, mx) ==
    IF mn.tensor
    THEN LET first == [b \in DOMAIN above |->
                          Where(above[b] > mn.val[b], above[b], mn.val[b])]
         IN  [b \in DOMAIN above |->
                 Where(above[b] < mx.val[b], first[b], mx.val[b])]
    ELSE [b \in DOMAIN above |-> Clip(above[b], mn.val, mx.val)]

\* Mutant of SelectClasses: the kept indices stay in score order.
SelectClassesUnsorted(sorted_idx, n_train) == Slice(sorted_idx, n_train)

\* line 55: the class indices kept for one image
SelectClasses(sorted_idx, n_train) == SortAsc(Slice(sorted_idx, n_train))

\* Mutant of BatchIndexFor: the fill value is one too large.
BatchIndexOffByOne(cls, b) == FullLike(cls, b + 1)

\* line 56
BatchIndexFor(cls, b) == FullLike(cls, b)

(***************************************************************************)
(* State.                                                                  *)
(***************************************************************************)
VARIABLES
    cfg,                 \* RetentionPolicy: the six policy scalars (lines 20-27)
    training,            \* self.training
    label_logits,        \* argument: bs x K logits
    force_sample_probs,  \* argument: optional bs x K forced probabilities
    num_classes,         \* argument: optional per-image class counts
    pc,                  \* position in RetentionPolicy.forward
    label_prob,          \* local: effective probabilities
    num_train,           \* local: per-image retain count
    id_b,                \* local: loop index of line 53
    bs_idx,              \* local: list of per-image batch-index tensors
    cls_idx,             \* local: list of per-image class-index tensors
    result,              \* the returned pair, once returned
    num_blocks,          \* PromptIndicator: number of prompt blocks (line 67)
    retain,              \* PromptIndicator: retention_policy is not None
    class_prompts,       \* PromptIndicator: the stored class prompts
    classifier_out,      \* what the label classifier of each layer answers
    targets,             \* argument of forward: optional list of target records
    ipc,                 \* position in PromptIndicator.forward
    lid,                 \* local: loop index of line 149
    tgt_class,           \* local: the batched prompt state
    origin_class_vector, \* local: the tiled prompts before refinement
    output_label_logits, \* local: list of per-layer logits
    output_feats,        \* local: list of per-layer states
    outputs,             \* local: the outputs dict
    aux_outputs,         \* local: the auxiliary outputs
    error,               \* the exception raised, "none" if none
    criterion_calls,     \* arguments of each call of the loss criterion
    indicator_return,    \* what PromptIndicator.forward returned
    classifier_calls,    \* arguments of each classifier call of this forward
    produced,            \* the class vectors tiled by each forward call so far
    called_before,       \* forward has been called before this call
    with_prompt_indicator, \* Transformer: prompt_indicator is not None
    with_object_decoder, \* Transformer: object_decoder is not None
    tpc,                 \* position in Transformer.forward
    t_outputs,           \* Transformer.forward: outputs
    t_loss_dict,         \* Transformer.forward: loss_dict
    additional_object_inputs, \* Transformer.forward: local
    decoder_calls,       \* arguments of each call of the object decoder
    transformer_return,  \* what Transformer.forward returned
    init_vectors,        \* CLASS_PROMPTS.init_vectors: a path, <<>> if not set
    fix_class_prompts,   \* CLASS_PROMPTS.fix_class_prompts
    d_in,                \* the second dimension of the array in the file
    cpc,                 \* position in PromptIndicator._init_class_prompts
    cerror,              \* the exception raised by construction, "none" if none
    loaded,              \* _init_class_prompts: the local class_prompts
    prompt_kind,         \* how self.class_prompts is held: buffer or parameter
    convert_vector,      \* self.convert_vector: "unset", "none" or "linear"
    with_encoder,        \* Transformer: encoder is not None
    level_sizes,         \* argument srcs: h * w of each feature level
    level_preserve,      \* PromptIndicator: level_preserve
    direct_kwargs,       \* kwargs of a direct call of PromptIndicator.forward
    t_srcs,              \* Transformer.forward: srcs, flattened
    t_mask,              \* Transformer.forward: mask, flattened
    cls_kwargs,          \* the mapping PromptIndicator.forward gets as kwargs
    obj_kwargs,          \* Transformer.forward: obj_kwargs
    i_srcs,              \* PromptIndicator.forward: srcs
    i_mask,              \* PromptIndicator.forward: mask
    stage_order,         \* the stages Transformer.forward has called so far
    kpc,                 \* position in PromptIndicator.__init__, lines 75-76
    clf_blocks,          \* args.num_blocks as __init__ reads it at line 76
    heap,                \* the classifier objects: identity -> weight
    classifier_label,    \* self.classifier_label: an object, then a list
    changed,             \* the last change of a layer's classifier
    factory,             \* the ResNeXt / Wide-ResNet factory called
    weights,             \* its argument weights
    given_kwargs,        \* the keyword arguments of the caller
    kwargs,              \* the factory's **kwargs mapping
    pending,             \* the _ovewrite_named_param calls still to make
    opc,                 \* position in the factory
    oerror,              \* the exception the factory raised, or "none"
    model,               \* the ResNet _resnet constructed, if any
    overwrite_calls,     \* the calls of _ovewrite_named_param made so far
    again,               \* the last call has been made a second time
    block,               \* ResNet.__init__: block
    layers,              \* ResNet.__init__: layers
    groups,              \* ResNet.__init__: groups
    width_per_group,     \* ResNet.__init__: width_per_group
    replace_given,       \* argument replace_stride_with_dilation
    replace_stride_with_dilation,  \* the local of that name (lines 337-340)
    spc,                 \* position in ResNet.__init__
    serror,              \* the exception ResNet.__init__ raised, or "none"
    inplanes,            \* self.inplanes
    dilation,            \* self.dilation
    stages,              \* self.layer1 .. self.layer4, as built so far
    fc_in                \* in_features of self.fc

rvars == <<cfg, training, label_logits, force_sample_probs, num_classes, pc,
           label_prob, num_train, id_b, bs_idx, cls_idx, result>>

\* the retention-policy call frame: arguments, locals, result
rframe == <<label_logits, force_sample_probs, num_classes, pc, label_prob,
            num_train, id_b, bs_idx, cls_idx, result>>

ivars == <<num_blocks, retain, class_prompts, classifier_out, targets, ipc, lid,
           tgt_class, origin_class_vector, output_label_logits, output_feats,
           outputs, aux_outputs, error, criterion_calls, indicator_return,
           classifier_calls, produced, called_before>>

fconfig == <<with_encoder, level_sizes, level_preserve, direct_kwargs>>

flocals == <<t_srcs, t_mask, cls_kwargs, obj_kwargs, i_srcs, i_mask,
             stage_order>>

\* the feature tokens, their mask and their level metadata
fvars == <<fconfig, flocals>>

tvars == <<with_prompt_indicator, with_object_decoder, tpc, t_outputs,
           t_loss_dict, additional_object_inputs, decoder_calls,
           transformer_return,
           fvars>>

\* the classifiers of PromptIndicator.__init__
kvars == <<kpc, clf_blocks, heap, classifier_label, changed>>

\* the factories of _resnet.py and _ovewrite_named_param
ovars == <<factory, weights, given_kwargs, kwargs, pending, opc, oerror, model,
           overwrite_calls, again>>

\* ResNet.__init__
svars == <<block, layers, groups, width_per_group, replace_given,
           replace_stride_with_dilation, spc, serror, inplanes, dilation,
           stages, fc_in>>

\* the state of the other components
xvars == <<kvars, ovars, svars>>

\* the state of _init_class_prompts
pvars == <<init_vectors, fix_class_prompts, d_in, cpc, cerror, loaded,
           prompt_kind, convert_vector>>

cvars == <<init_vectors, fix_class_prompts, d_in, cpc, cerror, loaded,
           prompt_kind, convert_vector, xvars>>

vars == <<rvars, ivars, tvars, cvars>>

\* no classifier has been built
ClassifierIdle ==
    /\ kpc = "idle"
    /\ clf_blocks = 0
    /\ heap = <<>>
    /\ classifier_label = <<>>
    /\ changed = [some |-> FALSE]

\* no factory has been called
OverwriteIdle ==
    /\ factory = "none"
    /\ weights = [some |-> FALSE]
    /\ given_kwargs = <<>>
    /\ kwargs = <<>>
    /\ pending = <<>>
    /\ opc = "idle"
    /\ oerror = "none"
    /\ model = [some |-> FALSE]
    /\ overwrite_calls = <<>>
    /\ again = FALSE

\* no ResNet is under construction
ResNetIdle ==
    /\ block = "none"
    /\ layers = <<>>
    /\ groups = 1
    /\ width_per_group = 64
    /\ replace_given = [some |-> FALSE]
    /\ replace_stride_with_dilation = <<>>
    /\ spc = "idle"
    /\ serror = "none"
    /\ inplanes = 0
    /\ dilation = 0
    /\ stages = <<>>
    /\ fc_in = 0

\* the other components are not in use
OthersIdle == ClassifierIdle /\ OverwriteIdle /\ ResNetIdle

(***************************************************************************)
(* Inputs of RetentionPolicy.forward enumerated by the model.              *)
(***************************************************************************)

\* (min, max) retain bounds, up to one more than the number of classes; the
\* clip of line 50 requires min <= max
BoundPairs(C) == {p \in (0 .. (C + 1)) \X (0 .. (C + 1)) : p[1] <= p[2]}

\* The policy scalars.  The training-mode bounds range over every pair; the
\* evaluation-mode bounds are their mirror image, so that the two modes
\* differ and every pair also occurs as the evaluation-mode bounds.  The
\* thresholds are 0.5 in training and 0.6 in evaluation.
Configs ==
    { [train_min_classes |-> p[1], train_max_classes |-> p[2],
       train_class_thr |-> 500,
       eval_min_classes |-> (NumClasses + 1) - p[2],
       eval_max_classes |-> (NumClasses + 1) - p[1],
       eval_class_thr |-> 600] :
      p \in BoundPairs(NumClasses) }

\* Logit batches: image 0 has probability 0.6 on the classes of S and 0.4
\* elsewhere; image b has the same row rotated by b classes.
LogitBatches ==
    { [b \in Images |-> [c \in Classes |->
          IF ((c + b) % NumClasses) \in S THEN 405 ELSE -405]] :
      S \in SUBSET Classes }

\* Forced probabilities: none, all negative (no override), or one image
\* with its first class forced to 0.9 or its last class forced to 0.0.
ForceInputs ==
    {None, Some([b \in Images |-> [c \in Classes |-> -1000]])}
    \cup { Some([b \in Images |-> [c \in Classes |->
                  IF b = fb /\ c = 0 THEN 900 ELSE -1000]]) : fb \in Images }
    \cup { Some([b \in Images |-> [c \in Classes |->
                  IF b = fb /\ c = NumClasses - 1 THEN 0 ELSE -1000]]) :
           fb \in Images }

\* num_classes: none, or counts 0..C+1 staggered over the images
NumClassesInputs ==
    {None} \cup { Some([b \in Images |-> (n0 + b) % (NumClasses + 2)]) :
                  n0 \in 0 .. (NumClasses + 1) }

\* The end-to-end scenario of the specification (B=2, C=5, threshold 0.5,
\* min 1, max 3): probabilities 0.9 0.1 0.6 0.4 0.2 and five times 0.05.
ScenarioRowA == [c \in 0 .. 4 |-> <<2197, -2197, 405, -405, -1386>>[c + 1]]
ScenarioRowB == [c \in 0 .. 4 |-> -2944]
ScenarioConfig ==
    [train_min_classes |-> 1, train_max_classes |-> 3, train_class_thr |-> 500,
     eval_min_classes |-> 1, eval_max_classes |-> 3, eval_class_thr |-> 500]
ScenarioBatches ==
    { [b \in 0 .. 1 |-> IF b = 0 THEN r0 ELSE r1] :
      r0 \in {ScenarioRowA, ScenarioRowB}, r1 \in {ScenarioRowA, ScenarioRowB} }

RetentionLocalsInit ==
    /\ pc = "call"
    /\ label_prob = <<>>
    /\ num_train = <<>>
    /\ id_b = 0
    /\ bs_idx = <<>>
    /\ cls_idx = <<>>
    /\ result = None

RetentionInit ==
    /\ \/ /\ cfg \in Configs
          /\ label_logits \in LogitBatches
          /\ force_sample_probs \in ForceInputs
          /\ num_classes \in NumClassesInputs
       \/ /\ cfg = ScenarioConfig
          /\ label_logits \in ScenarioBatches
          /\ force_sample_probs = None
          /\ num_classes = None
    /\ training \in BOOLEAN
    /\ RetentionLocalsInit

(***************************************************************************)
(* RetentionPolicy.forward as steps.                                       *)
(***************************************************************************)

\* lines 33-52: everything before the per-image loop.  The argsort of line
\* 51 is read one row per iteration, so its row is chosen in the iteration.
RetentionPrepare ==
    /\ pc = "call"
    /\ LET prob == LabelProb(training, label_logits, force_sample_probs)
           mn == MinClasses(cfg, training, num_classes)
           mx == MaxClasses(cfg, training, num_classes)
           above == NumAboveThr(prob, ClassThr(cfg, training))
       IN  /\ label_prob' = prob
           /\ num_train' = NumTrain(above, mn, mx)
    /\ bs_idx' = <<>>
    /\ cls_idx' = <<>>
    /\ id_b' = 0
    /\ pc' = "loop"
    /\ UNCHANGED <<cfg, training, label_logits, force_sample_probs,
                   num_classes, result>>

\* lines 53-56: one iteration
RetentionLoop ==
    /\ pc = "loop"
    /\ id_b \in DOMAIN label_prob
    /\ \E sorted_idx \in ArgsortDescending(label_prob[id_b]) :
          LET cls == SelectClasses(sorted_idx, num_train[id_b])
          IN  /\ cls_idx' = Append(cls_idx, cls)
              /\ bs_idx' = Append(bs_idx, BatchIndexFor(cls, id_b))
    /\ id_b' = id_b + 1
    /\ UNCHANGED <<cfg, training, label_logits, force_sample_probs,
                   num_classes, pc, label_prob, num_train, result>>

\* line 57
RetentionReturn ==
    /\ pc = "loop"
    /\ id_b \notin DOMAIN label_prob
    /\ result' = Some([bs_idx |-> Concat(bs_idx), cls_idx |-> Concat(cls_idx)])
    /\ pc' = "done"
    /\ UNCHANGED <<cfg, training, label_logits, force_sample_probs,
                   num_classes, label_prob, num_train, id_b, bs_idx, cls_idx>>

(***************************************************************************)
(* PromptIndicator.forward and Transformer.forward.                        *)
(***************************************************************************)

\* A prompt vector is known by the class it belongs to, the image whose
\* features it has attended to (-1: none yet), the layers it went through
\* and the number of times it was projected to the model dimension.
PromptVector(c) == [cls |-> c, img |-> -1, layers |-> <<>>, projected |-> 0]

\* line 140: self.vector_ln(self.convert_vector(self.class_prompts))
Project(prompts) ==
    [c \in DOMAIN prompts |->
        [prompts[c] EXCEPT !.projected = prompts[c].projected + 1]]

\* lines 139-142: the projected prompts when there is a projection, the
\* stored prompts otherwise
ClassVectors(prompts, convert) ==
    IF convert # "none" THEN Project(prompts) ELSE prompts

\* line 143: class_prompts.unsqueeze(0).tile([bs, 1, 1])
Tile(prompts, imgs) == [b \in imgs |-> [c \in DOMAIN prompts |-> prompts[c]]]

\* line 150: one prompt block (the block itself is an external layer)
PromptBlock(l, state) ==
    [b \in DOMAIN state |-> [c \in DOMAIN state[b] |->
        [state[b][c] EXCEPT !.img = b,
                            !.layers = Append(state[b][c].layers, l)]]]

\* Mutant of ClassifierCall: the classifier is conditioned on the state it
\* classifies instead of the tiled prompts.
ClassifierCallOnState(l, state, origin) ==
    [lid |-> l, tgt_class |-> state, class_vector |-> state]

\* line 151: self.classifier_label[lid](tgt_class,
\* class_vector=origin_class_vector)
ClassifierCall(l, state, origin) ==
    [lid |-> l, tgt_class |-> state, class_vector |-> origin]

\* Mutant of NegativeIndex: an index before the start gives the first
\* element.
NegativeIndexClamped(list, i) ==
    IF Len(list) = 0 THEN None
    ELSE Some(list[Max2(Len(list) + i, 0) + 1])

\* Mutant of NegativeIndex: the element one place later.
NegativeIndexOneLater(list, i) ==
    IF Len(list) + i + 1 >= 0 /\ Len(list) > 0
    THEN Some(list[Len(list) + i + 2]) ELSE None

\* list[i] of Python for a negative i; "IndexError" when out of range
NegativeIndex(list, i) ==
    IF Len(list) + i >= 0 THEN Some(list[Len(list) + i + 1]) ELSE None

\* Mutant of Gather: every row is taken from image 0.
GatherFirstImage(state, bs, cls) == [i \in 1 .. Len(bs) |-> state[0][cls[i]]]

\* line 169: tgt_class[bs_idxs, cls_idxs]
Gather(state, bs, cls) == [i \in 1 .. Len(bs) |-> state[bs[i]][cls[i]]]

\* dict.update(new)
Update(dict, new) == new @@ dict

\* line 166: the stack of the records' force_sample_probs
StackForce(list) ==
    [b \in 0 .. (Len(list) - 1) |-> list[b + 1]["force_sample_probs"]]

\* line 167: the concat of the records' num_classes
ConcatNumClasses(list) ==
    [b \in 0 .. (Len(list) - 1) |-> list[b + 1]["num_classes"]]

\* t[key] fails for some record of the list
KeyMissing(list, key) == \E i \in 1 .. Len(list) : key \notin DOMAIN list[i]

\* lines 176-180
AuxOutputs(logits) ==
    IF Len(logits) > 1
    THEN [i \in 1 .. (Len(logits) - 1) |-> [cls_label_logits |-> logits[i]]]
    ELSE <<>>

\* the loss criterion is external: its answer names what it was given
Criterion(outs, aux, tgts) == [loss_cls |-> Len(aux) + 1]

\* the object decoder is external: its outputs and losses
DecoderOutputs == [pred_logits |-> "decoded"]
DecoderLosses == [loss_obj |-> 1]

(***************************************************************************)
(* The feature tokens.  A token is known by its level and its position in  *)
(* the level; the flattened arrays are sequences over the tokens of one    *)
(* image (the batch dimension is sliced whole everywhere).                 *)
(***************************************************************************)

RECURSIVE SumSeq(_)
SumSeq(seq) ==
    IF seq = <<>> THEN 0
    ELSE SumSeq(SubSeq(seq, 1, Len(seq) - 1)) + seq[Len(seq)]

\* the places of the flattened arrays, level after level
RECURSIVE Places(_)
Places(sizes) ==
    IF sizes = <<>> THEN <<>>
    ELSE Places(SubSeq(sizes, 1, Len(sizes) - 1))
         \o [p \in 1 .. sizes[Len(sizes)] |-> <<Len(sizes) - 1, p - 1>>]

\* transformer.py lines 124-128: src_flatten
SrcFlatten(sizes) ==
    [i \in DOMAIN Places(sizes) |->
        [lvl |-> Places(sizes)[i][1], pos |-> Places(sizes)[i][2],
         encoded |-> FALSE]]

\* transformer.py lines 125-129: mask_flatten
MaskFlatten(sizes) ==
    [i \in DOMAIN Places(sizes) |->
        [lvl |-> Places(sizes)[i][1], pos |-> Places(sizes)[i][2]]]

\* transformer.py line 132: zeros([1]) followed by prod(1).cumsum(0)[:-1]
LevelStartIndex(sizes) ==
    [l \in 1 .. Len(sizes) |-> SumSeq(SubSeq(sizes, 1, l - 1))]

\* transformer.py line 57: the encoder (an external layer) on every token
Encoder(srcs) == [i \in DOMAIN srcs |-> [srcs[i] EXCEPT !.encoded = TRUE]]

\* seq[a:b] and seq[a:] of Python for 0 <= a
PySlice(seq, a, b) == SubSeq(seq, a + 1, Min2(b, Len(seq)))
PySliceFrom(seq, a) == SubSeq(seq, a + 1, Len(seq))

\* Mutant of LevelSlice: every level runs to the end.
LevelSliceOpenEnded(seq, starts, lvl) == PySliceFrom(seq, starts[lvl + 1])

\* lines 126-131: the tokens of one level (starts is indexed from 0 in the
\* code, from 1 here)
LevelSlice(seq, starts, lvl) ==
    IF lvl < Len(starts) - 1
    THEN PySlice(seq, starts[lvl + 1], starts[lvl + 2])
    ELSE PySliceFrom(seq, starts[lvl + 1])

\* lines 125-131: new_srcs or new_mask
LevelParts(seq, starts, preserve) ==
    [k \in 1 .. Len(preserve) |-> LevelSlice(seq, starts, preserve[k])]

\* lines 133-134: [0] + the lengths of new_mask[:-1], then cumsum
NewStartIndex(parts) ==
    [j \in 1 .. Len(parts) |-> SumSeq([k \in 1 .. (j - 1) |-> Len(parts[k])])]

\* kwargs.pop(key)
Pop(dict, key) == [k \in DOMAIN dict \ {key} |-> dict[k]]

(***************************************************************************)
(* PromptIndicator._init_class_prompts (lines 85-113).  A path is the      *)
(* sequence of its characters.                                             *)
(***************************************************************************)

PathChars == {".", "n", "p", "y", "t", "h"}

\* CLASS_PROMPTS.init_vectors: not set (<<>>, falsy at line 87) or a path
Paths == UNION { [1 .. n -> PathChars] : n \in 1 .. MaxPathLen }

\* path[-3:]
LastThree(path) ==
    IF Len(path) > 3 THEN SubSeq(path, Len(path) - 2, Len(path)) ELSE path

\* the (C, D_in) array of the file: one vector per class
FileArray == [c \in Classes |-> PromptVector(c)]

\* line 103 and line 106: the (num_classes, d_model) zeros, then the normal
\* samples written over them
RandomArray == [c \in Classes |-> PromptVector(c)]

\* Mutant of RandInitAllowed: the assertion of line 104 is not made.
RandInitAlwaysAllowed(fix) == TRUE

\* line 104: assert args.fix_class_prompts == False
RandInitAllowed(fix) == fix = FALSE

\* lines 109-113: a projection exactly when the dimensions differ
ConvertVectorFor(dim) == IF dim # DModel THEN "linear" ELSE "none"

ConstructIdle ==
    /\ init_vectors = <<>>
    /\ fix_class_prompts = FALSE
    /\ d_in = DModel
    /\ cpc = "idle"
    /\ cerror = "none"
    /\ loaded = None
    /\ prompt_kind = "none"
    /\ convert_vector = "unset"

\* a prompt indicator built from a '.npy' file of fixed prompts
Constructed ==
    /\ init_vectors = <<"p", ".", "n", "p", "y">>
    /\ fix_class_prompts = TRUE
    /\ d_in \in {DModel, DModel + 1}
    /\ cpc = "constructed"
    /\ cerror = "none"
    /\ loaded = None
    /\ prompt_kind = "buffer"
    /\ convert_vector = ConvertVectorFor(d_in)

RetentionIdle ==
    /\ label_logits = <<>>
    /\ force_sample_probs = None
    /\ num_classes = None
    /\ pc = "idle"
    /\ label_prob = <<>>
    /\ num_train = <<>>
    /\ id_b = 0
    /\ bs_idx = <<>>
    /\ cls_idx = <<>>
    /\ result = None

ForwardIdle ==
    /\ num_blocks = 0
    /\ retain = FALSE
    /\ class_prompts = <<>>
    /\ classifier_out = <<>>
    /\ targets = None
    /\ ipc = "idle"
    /\ lid = 0
    /\ tgt_class = <<>>
    /\ origin_class_vector = <<>>
    /\ output_label_logits = <<>>
    /\ output_feats = <<>>
    /\ outputs = <<>>
    /\ aux_outputs = <<>>
    /\ error = "none"
    /\ criterion_calls = <<>>
    /\ indicator_return = None
    /\ classifier_calls = <<>>
    /\ produced = <<>>
    /\ called_before = FALSE
    /\ with_encoder = FALSE
    /\ level_sizes = <<>>
    /\ level_preserve = <<>>
    /\ direct_kwargs = None
    /\ t_srcs = <<>>
    /\ t_mask = <<>>
    /\ cls_kwargs = <<>>
    /\ obj_kwargs = <<>>
    /\ i_srcs = <<>>
    /\ i_mask = <<>>
    /\ stage_order = <<>>
    /\ with_prompt_indicator = FALSE
    /\ with_object_decoder = FALSE
    /\ tpc = "idle"
    /\ t_outputs = <<>>
    /\ t_loss_dict = <<>>
    /\ additional_object_inputs = <<>>
    /\ decoder_calls = <<>>
    /\ transformer_return = None

\* The policies a forward call is run with.
ForwardConfigs ==
    { [train_min_classes |-> p[1], train_max_classes |-> p[2],
       train_class_thr |-> 500,
       eval_min_classes |-> p[1], eval_max_classes |-> p[2],
       eval_class_thr |-> 600] :
      p \in {<<0, 0>>, <<1, 2>>, <<NumClasses, NumClasses>>} }

\* The answers of the per-layer classifiers: the first k classes of the
\* row are above every threshold, the row being rotated by the image and by
\* the layer.
ClassifierAnswers(n) ==
    { [l \in 0 .. (n - 1) |-> [b \in Images |-> [c \in Classes |->
          IF ((c + b + l) % NumClasses) < k THEN 405 ELSE -405]]] :
      k \in 0 .. NumClasses }

\* Target records: both fields, or one of them missing from every record,
\* or "num_classes" missing from the last record only.
TargetLists ==
    { [i \in 1 .. NumImages |->
          [num_classes |-> (n0 + i - 1) % (NumClasses + 2),
           force_sample_probs |-> [c \in Classes |-> IF c = fc THEN 900 ELSE -1000]]] :
      n0 \in {0, 1, NumClasses}, fc \in {-1, 0} }
    \cup { [i \in 1 .. NumImages |-> [num_classes |-> NumClasses]],
           [i \in 1 .. NumImages |->
               [force_sample_probs |-> [c \in Classes |-> -1000]]],
           [i \in 1 .. NumImages |->
               IF i < NumImages
               THEN [num_classes |-> NumClasses,
                     force_sample_probs |-> [c \in Classes |-> -1000]]
               ELSE [force_sample_probs |-> [c \in Classes |-> -1000]]] }

TargetInputs == {None} \cup {Some(t) : t \in TargetLists}

ForwardInit ==
    /\ cfg \in ForwardConfigs
    /\ training \in BOOLEAN
    /\ RetentionIdle
    /\ num_blocks \in 1 .. MaxBlocks
    /\ retain \in BOOLEAN
    /\ class_prompts = [c \in Classes |-> PromptVector(c)]
    /\ classifier_out \in ClassifierAnswers(num_blocks)
    /\ targets \in TargetInputs
    /\ ipc = "idle"
    /\ lid = 0
    /\ tgt_class = <<>>
    /\ origin_class_vector = <<>>
    /\ output_label_logits = <<>>
    /\ output_feats = <<>>
    /\ outputs = <<>>
    /\ aux_outputs = <<>>
    /\ error = "none"
    /\ criterion_calls = <<>>
    /\ indicator_return = None
    /\ classifier_calls = <<>>
    /\ produced = <<>>
    /\ called_before = FALSE
    /\ with_encoder = TRUE
    /\ level_sizes = <<1, 2>>
    /\ level_preserve = <<>>
    /\ direct_kwargs = None
    /\ t_srcs = <<>>
    /\ t_mask = <<>>
    /\ cls_kwargs = <<>>
    /\ obj_kwargs = <<>>
    /\ i_srcs = <<>>
    /\ i_mask = <<>>
    /\ stage_order = <<>>
    /\ with_prompt_indicator \in BOOLEAN
    /\ with_object_decoder \in BOOLEAN
    /\ tpc = "start"
    /\ t_outputs = <<>>
    /\ t_loss_dict = <<>>
    /\ additional_object_inputs = <<>>
    /\ decoder_calls = <<>>
    /\ transformer_return = None
    /\ Constructed
    /\ OthersIdle

iconfig == <<cfg, training, num_blocks, retain, class_prompts, classifier_out,
             targets, with_prompt_indicator, with_object_decoder, cvars,
             called_before, fconfig>>

\* An exception leaves PromptIndicator.forward and then Transformer.forward.
Raise(e) ==
    /\ error' = e
    /\ ipc' = "raised"
    /\ tpc' = "raised"

\* transformer.py lines 54-61 and 70-71: the features are flattened and
\* their level metadata put together (prepare_for_deformable, lines
\* 110-143), the encoder runs when there is one, the dicts are emptied, and
\* the prompt indicator is called when there is one.
TransformerStart ==
    /\ tpc = "start"
    /\ LET start == LevelStartIndex(level_sizes)
           srcs == IF with_encoder
                   THEN Encoder(SrcFlatten(level_sizes))
                   ELSE SrcFlatten(level_sizes)
       IN  /\ t_srcs' = srcs
           /\ t_mask' = MaskFlatten(level_sizes)
           /\ cls_kwargs' = [src_level_start_index |-> start]
           /\ obj_kwargs' = [src_spatial_shapes |-> level_sizes,
                             src_level_start_index |-> start,
                             src_valid_ratios |-> "valid_ratios"]
    /\ t_outputs' = <<>>
    /\ t_loss_dict' = <<>>
    /\ IF with_prompt_indicator
       THEN /\ tpc' = "indicator"
            /\ ipc' = "filter"
            /\ i_srcs' = t_srcs'
            /\ i_mask' = t_mask'
            /\ stage_order' = (IF with_encoder THEN <<"encoder">> ELSE <<>>)
                                 \o <<"prompt_indicator">>
            /\ UNCHANGED additional_object_inputs
       ELSE /\ tpc' = "decoder"
            /\ additional_object_inputs' = <<>>
            /\ stage_order' = IF with_encoder THEN <<"encoder">> ELSE <<>>
            /\ UNCHANGED <<ipc, i_srcs, i_mask>>
    /\ UNCHANGED <<iconfig, rframe, lid, tgt_class, origin_class_vector,
                   output_label_logits, output_feats,
                   classifier_calls, produced, outputs, aux_outputs,
                   error, criterion_calls, indicator_return, decoder_calls,
                   transformer_return>>

\* Mutant of IndicatorFilter: the prompt indicator and the object decoder
\* are given one and the same keyword mapping, so that the rewritten level
\* starts are the object decoder's too.
IndicatorFilterShared ==
    /\ ipc = "filter"
    /\ IF Len(level_preserve) > 0 /\ "src_level_start_index" \in DOMAIN cls_kwargs
       THEN LET src_level_start_index == cls_kwargs["src_level_start_index"]
                new_srcs == LevelParts(i_srcs, src_level_start_index,
                                       level_preserve)
                new_mask == LevelParts(i_mask, src_level_start_index,
                                       level_preserve)
            IN  \/ /\ cls_kwargs' =
                         Update(Pop(cls_kwargs, "src_level_start_index"),
                                [src_level_start_index |->
                                    NewStartIndex(new_mask)])
                   /\ obj_kwargs' =
                         IF obj_kwargs = <<>> THEN obj_kwargs
                         ELSE Update(obj_kwargs, cls_kwargs')
                   /\ i_srcs' = Concat(new_srcs)
                   /\ i_mask' = Concat(new_mask)
                   /\ ipc' = "prompts"
                   /\ UNCHANGED <<error, tpc>>
                \/ /\ \E e \in {"TypeError", "AttributeError"} : Raise(e)
                   /\ cls_kwargs' = Pop(cls_kwargs, "src_level_start_index")
                   /\ UNCHANGED <<i_srcs, i_mask, obj_kwargs>>
       ELSE /\ ipc' = "prompts"
            /\ UNCHANGED <<cls_kwargs, i_srcs, i_mask, error, tpc, obj_kwargs>>
    /\ UNCHANGED <<iconfig, rframe, lid, tgt_class, origin_class_vector,
                   output_label_logits, output_feats, classifier_calls,
                   produced, outputs, aux_outputs, criterion_calls,
                   indicator_return, with_prompt_indicator,
                   with_object_decoder, t_outputs, t_loss_dict,
                   additional_object_inputs, decoder_calls,
                   transformer_return, t_srcs, t_mask, stage_order>>

\* lines 120-136: the levels of level_preserve are sliced out of srcs and
\* mask and concatenated, and the level starts are recomputed in kwargs,
\* which is the caller's mapping.  Line 133 passes device= to
\* paddle.to_tensor and reads the attribute device of a tensor, which the
\* installed paddle may or may not accept: the filtering completes, or
\* TypeError or AttributeError is raised after the pop of line 123.
IndicatorFilter ==
    /\ ipc = "filter"
    /\ IF Len(level_preserve) > 0 /\ "src_level_start_index" \in DOMAIN cls_kwargs
       THEN LET src_level_start_index == cls_kwargs["src_level_start_index"]
                new_srcs == LevelParts(i_srcs, src_level_start_index,
                                       level_preserve)
                new_mask == LevelParts(i_mask, src_level_start_index,
                                       level_preserve)
            IN  \/ /\ cls_kwargs' =
                         Update(Pop(cls_kwargs, "src_level_start_index"),
                                [src_level_start_index |->
                                    NewStartIndex(new_mask)])
                   /\ i_srcs' = Concat(new_srcs)
                   /\ i_mask' = Concat(new_mask)
                   /\ ipc' = "prompts"
                   /\ UNCHANGED <<error, tpc>>
                \/ /\ \E e \in {"TypeError", "AttributeError"} : Raise(e)
                   /\ cls_kwargs' = Pop(cls_kwargs, "src_level_start_index")
                   /\ UNCHANGED <<i_srcs, i_mask>>
       ELSE /\ ipc' = "prompts"
            /\ UNCHANGED <<cls_kwargs, i_srcs, i_mask, error, tpc>>
    /\ UNCHANGED <<iconfig, rframe, lid, tgt_class, origin_class_vector,
                   output_label_logits, output_feats, classifier_calls,
                   produced, outputs, aux_outputs, criterion_calls,
                   indicator_return, with_prompt_indicator,
                   with_object_decoder, t_outputs, t_loss_dict,
                   additional_object_inputs, decoder_calls,
                   transformer_return, t_srcs, t_mask, obj_kwargs,
                   stage_order>>

\* Mutant of IndicatorPrompts: the projection is written back to the
\* stored class prompts.
IndicatorPromptsInPlace ==
    /\ ipc = "prompts"
    /\ class_prompts' = ClassVectors(class_prompts, convert_vector)
    /\ tgt_class' = Tile(class_prompts', Images)
    /\ origin_class_vector' = tgt_class'
    /\ produced' = Append(produced, origin_class_vector')
    /\ output_label_logits' = <<>>
    /\ output_feats' = <<>>
    /\ classifier_calls' = <<>>
    /\ lid' = 0
    /\ ipc' = "layers"
    /\ UNCHANGED <<cfg, training, num_blocks, retain, classifier_out, targets,
                   with_prompt_indicator, with_object_decoder, cvars,
                   called_before, rframe, outputs, aux_outputs, error,
                   criterion_calls, indicator_return, tvars>>

\* lines 138-148: the class vectors (projected when there is a projection)
\* tiled over the batch, and the empty lists; self.class_prompts is only
\* read.  (Lines 120-136 slice srcs and mask, which only the prompt blocks
\* read.)
IndicatorPrompts ==
    /\ ipc = "prompts"
    /\ class_prompts' = class_prompts
    /\ tgt_class' = Tile(ClassVectors(class_prompts, convert_vector), Images)
    /\ origin_class_vector' = tgt_class'
    /\ produced' = Append(produced, origin_class_vector')
    /\ output_label_logits' = <<>>
    /\ output_feats' = <<>>
    /\ classifier_calls' = <<>>
    /\ lid' = 0
    /\ ipc' = "layers"
    /\ UNCHANGED <<cfg, training, num_blocks, retain, classifier_out, targets,
                   with_prompt_indicator, with_object_decoder, cvars,
                   called_before, rframe, outputs, aux_outputs, error,
                   criterion_calls, indicator_return, tvars>>

\* lines 149-154: one prompt block and its classifier
IndicatorLayer ==
    /\ ipc = "layers"
    /\ lid < num_blocks
    /\ tgt_class' = PromptBlock(lid, tgt_class)
    /\ classifier_calls' =
          Append(classifier_calls,
                 ClassifierCall(lid, tgt_class', origin_class_vector))
    /\ output_label_logits' = Append(output_label_logits, classifier_out[lid])
    /\ output_feats' = Append(output_feats, tgt_class')
    /\ lid' = lid + 1
    /\ UNCHANGED <<iconfig, rframe, ipc, origin_class_vector, produced,
                   outputs, aux_outputs, error, criterion_calls,
                   indicator_return, tvars>>

\* lines 157-162: the outputs dict; output_label_logits[-2] must exist
IndicatorOrganize ==
    /\ ipc = "layers"
    /\ lid = num_blocks
    /\ LET main == NegativeIndex(output_label_logits, -2)
       IN  IF main.some
           THEN /\ outputs' = [tgt_class |-> tgt_class,
                               cls_label_logits |-> main.val,
                               cls_output_feats |-> tgt_class]
                /\ ipc' = "select"
                /\ UNCHANGED <<error, tpc>>
           ELSE /\ Raise("IndexError")
                /\ UNCHANGED outputs
    /\ UNCHANGED <<iconfig, rframe, lid, tgt_class, origin_class_vector,
                   output_label_logits, output_feats,
                   classifier_calls, produced, aux_outputs,
                   criterion_calls, indicator_return, with_prompt_indicator,
                   with_object_decoder, fvars, t_outputs, t_loss_dict,
                   additional_object_inputs, decoder_calls, transformer_return>>

\* lines 166-167 with every record read for "force_sample_probs" in both
\* modes
FieldMissingAnyMode(training_, list) ==
    \/ KeyMissing(list, "force_sample_probs")
    \/ KeyMissing(list, "num_classes")

\* lines 166-167: t["force_sample_probs"] is evaluated for every record
\* only when training, t["num_classes"] for every record in both modes; a
\* record without the key that is read raises KeyError
FieldMissing(training_, list) ==
    \/ training_ /\ KeyMissing(list, "force_sample_probs")
    \/ KeyMissing(list, "num_classes")

\* lines 165-168: the arguments of the retention policy are read from the
\* targets and the policy is called with the logits of the loop's last pass
IndicatorSelectCall ==
    /\ ipc = "select"
    /\ IF ~retain
       THEN /\ ipc' = "aux"
            /\ UNCHANGED <<rframe, error, tpc>>
       ELSE IF ~targets.some
       THEN /\ Raise("TypeError")
            /\ UNCHANGED rframe
       ELSE IF FieldMissing(training, targets.val)
       THEN /\ Raise("KeyError")
            /\ UNCHANGED rframe
       ELSE /\ label_logits' = output_label_logits[Len(output_label_logits)]
            /\ force_sample_probs' =
                  IF training THEN Some(StackForce(targets.val)) ELSE None
            /\ num_classes' = Some(ConcatNumClasses(targets.val))
            /\ pc' = "call"
            /\ ipc' = "retention"
            /\ UNCHANGED <<label_prob, num_train, id_b, bs_idx, cls_idx,
                           result, error, tpc>>
    /\ UNCHANGED <<cvars, called_before, cfg, training, num_blocks, retain,
                   class_prompts,
                   classifier_out, targets, lid, tgt_class, origin_class_vector,
                   output_label_logits, output_feats,
                   classifier_calls, produced, outputs, aux_outputs,
                   criterion_calls, indicator_return, with_prompt_indicator,
                   with_object_decoder, fvars, t_outputs, t_loss_dict,
                   additional_object_inputs, decoder_calls, transformer_return>>

\* the retention policy runs inside the call of line 168
IndicatorRetentionPrepare ==
    ipc = "retention" /\ RetentionPrepare /\ UNCHANGED <<ivars, tvars, cvars>>

IndicatorRetentionLoop ==
    ipc = "retention" /\ RetentionLoop /\ UNCHANGED <<ivars, tvars, cvars>>

IndicatorRetentionReturn ==
    ipc = "retention" /\ RetentionReturn /\ UNCHANGED <<ivars, tvars, cvars>>

\* lines 168-174: the policy's answer, the gathered vectors
IndicatorSelectReturn ==
    /\ ipc = "retention"
    /\ pc = "done"
    /\ LET bs_idxs == result.val.bs_idx
           cls_idxs == result.val.cls_idx
           return_tgts == Gather(tgt_class, bs_idxs, cls_idxs)
       IN  outputs' = Update(outputs, [bs_idx |-> bs_idxs,
                                       cls_idx |-> cls_idxs,
                                       tgt_class |-> return_tgts])
    /\ pc' = "idle"
    /\ ipc' = "aux"
    /\ UNCHANGED <<iconfig, label_logits, force_sample_probs, num_classes,
                   label_prob, num_train, id_b, bs_idx, cls_idx, result, lid,
                   tgt_class, origin_class_vector, output_label_logits,
                   output_feats,
                   classifier_calls, produced, aux_outputs, error, criterion_calls,
                   indicator_return, tvars>>

\* lines 176-180
IndicatorAux ==
    /\ ipc = "aux"
    /\ aux_outputs' = AuxOutputs(output_label_logits)
    /\ ipc' = "criterion"
    /\ UNCHANGED <<iconfig, rframe, lid, tgt_class, origin_class_vector,
                   output_label_logits, output_feats,
                   classifier_calls, produced, outputs, error,
                   criterion_calls, indicator_return, tvars>>

\* lines 183-187: the assertion, the criterion, the return
IndicatorCriterion ==
    /\ ipc = "criterion"
    /\ IF targets.some
       THEN /\ criterion_calls' =
                  Append(criterion_calls,
                         [outputs |-> outputs, aux_outputs |-> aux_outputs,
                          targets |-> targets.val])
            /\ indicator_return' =
                  Some([outputs |-> outputs,
                        loss_dict |-> Criterion(outputs, aux_outputs, targets.val)])
            /\ ipc' = "returned"
            /\ UNCHANGED <<error, tpc>>
       ELSE /\ Raise("AssertionError")
            /\ UNCHANGED <<criterion_calls, indicator_return>>
    /\ UNCHANGED <<iconfig, rframe, lid, tgt_class, origin_class_vector,
                   output_label_logits, output_feats,
                   classifier_calls, produced, outputs, aux_outputs,
                   with_prompt_indicator, with_object_decoder, fvars, t_outputs,
                   t_loss_dict, additional_object_inputs, decoder_calls,
                   transformer_return>>

\* transformer.py lines 61-69: the indicator's answer is merged and the
\* additional inputs of the object decoder are put together
TransformerAfterIndicator ==
    /\ tpc = "indicator"
    /\ ipc = "returned"
    /\ LET outs == Update(t_outputs, indicator_return.val.outputs)
       IN  /\ t_outputs' = outs
           /\ additional_object_inputs' =
                 [bs_idx |-> IF "bs_idx" \in DOMAIN outs
                             THEN Some(outs["bs_idx"]) ELSE None,
                  cls_idx |-> IF "cls_idx" \in DOMAIN outs
                              THEN Some(outs["cls_idx"]) ELSE None,
                  class_vector |-> outs["tgt_class"],
                  previous_logits |-> outs["cls_label_logits"]]
    /\ t_loss_dict' = Update(t_loss_dict, indicator_return.val.loss_dict)
    /\ tpc' = "decoder"
    /\ UNCHANGED <<cvars, rvars, ivars, with_prompt_indicator, with_object_decoder, fvars,
                   decoder_calls, transformer_return>>

\* Mutant of TransformerDecoder: the object decoder is called whether or
\* not there is one.
TransformerDecoderAlways ==
    /\ tpc = "decoder"
    /\ decoder_calls' =
          Append(decoder_calls,
                 [srcs |-> t_srcs, mask |-> t_mask,
                  targets |-> targets,
                  additional_info |-> additional_object_inputs,
                  kwargs |-> obj_kwargs])
    /\ stage_order' = Append(stage_order, "object_decoder")
    /\ t_outputs' = Update(t_outputs, DecoderOutputs)
    /\ t_loss_dict' = Update(t_loss_dict, DecoderLosses)
    /\ transformer_return' =
          Some([outputs |-> t_outputs', loss_dict |-> t_loss_dict'])
    /\ tpc' = "done"
    /\ UNCHANGED <<cvars, rvars, ivars, with_prompt_indicator,
                   with_object_decoder, fconfig, t_srcs, t_mask, cls_kwargs,
                   obj_kwargs, i_srcs, i_mask,
                   additional_object_inputs>>

\* transformer.py lines 73-78: the object decoder when there is one, and
\* the return
TransformerDecoder ==
    /\ tpc = "decoder"
    /\ IF with_object_decoder
       THEN /\ decoder_calls' =
                  Append(decoder_calls,
                         [srcs |-> t_srcs, mask |-> t_mask,
                          targets |-> targets,
                          additional_info |-> additional_object_inputs,
                          kwargs |-> obj_kwargs])
            /\ stage_order' = Append(stage_order, "object_decoder")
            /\ t_outputs' = Update(t_outputs, DecoderOutputs)
            /\ t_loss_dict' = Update(t_loss_dict, DecoderLosses)
            /\ transformer_return' =
                  Some([outputs |-> t_outputs', loss_dict |-> t_loss_dict'])
       ELSE /\ transformer_return' =
                  Some([outputs |-> t_outputs, loss_dict |-> t_loss_dict])
            /\ UNCHANGED <<decoder_calls, t_outputs, t_loss_dict, stage_order>>
    /\ tpc' = "done"
    /\ UNCHANGED <<cvars, rvars, ivars, with_prompt_indicator,
                   with_object_decoder, fconfig, t_srcs, t_mask, cls_kwargs,
                   obj_kwargs, i_srcs, i_mask,
                   additional_object_inputs>>

\* transformer.py line 50: the caller invokes forward once more on the same
\* inputs once the first call has returned; every local starts afresh
TransformerCallAgain ==
    /\ tpc = "done"
    /\ ~called_before
    /\ called_before' = TRUE
    /\ tpc' = "start"
    /\ ipc' = "idle"
    /\ pc' = "idle"
    /\ label_logits' = <<>>
    /\ force_sample_probs' = None
    /\ num_classes' = None
    /\ label_prob' = <<>>
    /\ num_train' = <<>>
    /\ id_b' = 0
    /\ bs_idx' = <<>>
    /\ cls_idx' = <<>>
    /\ result' = None
    /\ lid' = 0
    /\ tgt_class' = <<>>
    /\ origin_class_vector' = <<>>
    /\ output_label_logits' = <<>>
    /\ output_feats' = <<>>
    /\ classifier_calls' = <<>>
    /\ outputs' = <<>>
    /\ aux_outputs' = <<>>
    /\ criterion_calls' = <<>>
    /\ indicator_return' = None
    /\ t_outputs' = <<>>
    /\ t_loss_dict' = <<>>
    /\ additional_object_inputs' = <<>>
    /\ decoder_calls' = <<>>
    /\ transformer_return' = None
    /\ t_srcs' = <<>>
    /\ t_mask' = <<>>
    /\ cls_kwargs' = <<>>
    /\ obj_kwargs' = <<>>
    /\ i_srcs' = <<>>
    /\ i_mask' = <<>>
    /\ stage_order' = <<>>
    /\ UNCHANGED <<cfg, training, num_blocks, retain, class_prompts,
                   classifier_out, targets, with_prompt_indicator,
                   with_object_decoder, cvars, produced, error, fconfig>>

ForwardNext ==
    \/ TransformerStart
    \/ IndicatorFilter
    \/ IndicatorPrompts
    \/ IndicatorLayer
    \/ IndicatorOrganize
    \/ IndicatorSelectCall
    \/ IndicatorRetentionPrepare
    \/ IndicatorRetentionLoop
    \/ IndicatorRetentionReturn
    \/ IndicatorSelectReturn
    \/ IndicatorAux
    \/ IndicatorCriterion
    \/ TransformerAfterIndicator
    \/ TransformerDecoder
    \/ TransformerCallAgain

(***************************************************************************)
(* Specifications.                                                         *)
(***************************************************************************)

\* RetentionPolicy.forward called on its own
Init == RetentionInit /\ ForwardIdle /\ ConstructIdle /\ OthersIdle

Next ==
    \/ RetentionPrepare /\ UNCHANGED <<ivars, tvars, cvars>>
    \/ RetentionLoop /\ UNCHANGED <<ivars, tvars, cvars>>
    \/ RetentionReturn /\ UNCHANGED <<ivars, tvars, cvars>>

Spec == Init /\ [][Next]_vars

\* Transformer.forward, with PromptIndicator.forward and the retention
\* policy inside it
ForwardSpec == ForwardInit /\ [][ForwardNext]_vars

(***************************************************************************)
(* Transformer.forward and PromptIndicator.forward over feature pyramids   *)
(* and level_preserve lists.                                               *)
(***************************************************************************)

\* the srcs list: L levels, either halving towards the last level or all of
\* two tokens
LevelSizeInputs ==
    UNION { { [l \in 1 .. L |-> L - l + 1], [l \in 1 .. L |-> 2] } :
            L \in 1 .. MaxLevels }

\* args.level_preserve: levels of the pyramid, in any order
PreserveInputs(L) ==
    UNION { [1 .. n -> 0 .. (L - 1)] : n \in 0 .. MaxPreserve }

\* targets with both fields
PipelineTargets ==
    Some([i \in 1 .. NumImages |->
             [num_classes |-> NumClasses,
              force_sample_probs |-> [c \in Classes |-> -1000]]])

\* classifiers whose first class only is above the thresholds, rotated by
\* image and layer
PipelineClassifiers ==
    [l \in 0 .. 1 |-> [b \in Images |-> [c \in Classes |->
        IF ((c + b + l) % NumClasses) < 1 THEN 405 ELSE -405]]]

PipelineInit ==
    /\ cfg = ScenarioConfig
    /\ training = TRUE
    /\ RetentionIdle
    /\ num_blocks = 2
    /\ retain \in BOOLEAN
    /\ class_prompts = [c \in Classes |-> PromptVector(c)]
    /\ classifier_out = PipelineClassifiers
    /\ targets = PipelineTargets
    /\ lid = 0
    /\ tgt_class = <<>>
    /\ origin_class_vector = <<>>
    /\ output_label_logits = <<>>
    /\ output_feats = <<>>
    /\ outputs = <<>>
    /\ aux_outputs = <<>>
    /\ error = "none"
    /\ criterion_calls = <<>>
    /\ indicator_return = None
    /\ classifier_calls = <<>>
    /\ produced = <<>>
    /\ called_before = FALSE
    /\ level_sizes \in LevelSizeInputs
    /\ level_preserve \in PreserveInputs(Len(level_sizes))
    /\ t_srcs = <<>>
    /\ t_mask = <<>>
    /\ obj_kwargs = <<>>
    /\ stage_order = <<>>
    /\ t_outputs = <<>>
    /\ t_loss_dict = <<>>
    /\ additional_object_inputs = <<>>
    /\ decoder_calls = <<>>
    /\ transformer_return = None
    /\ Constructed
    /\ OthersIdle
    /\ \/ /\ tpc = "start"
          /\ ipc = "idle"
          /\ with_encoder \in BOOLEAN
          /\ with_prompt_indicator \in BOOLEAN
          /\ with_object_decoder \in BOOLEAN
          /\ direct_kwargs = None
          /\ cls_kwargs = <<>>
          /\ i_srcs = <<>>
          /\ i_mask = <<>>
       \/ /\ tpc = "direct"
          /\ ipc = "filter"
          /\ with_encoder = FALSE
          /\ with_prompt_indicator = TRUE
          /\ with_object_decoder = FALSE
          /\ direct_kwargs \in
                {Some(<<>>),
                 Some([src_level_start_index |-> LevelStartIndex(level_sizes)])}
          /\ cls_kwargs = direct_kwargs.val
          /\ i_srcs = SrcFlatten(level_sizes)
          /\ i_mask = MaskFlatten(level_sizes)

\* Transformer.forward, or PromptIndicator.forward called directly, over
\* every pyramid and level_preserve list
PipelineSpec == PipelineInit /\ [][ForwardNext]_vars

(***************************************************************************)
(* The construction of the class prompts.                                  *)
(***************************************************************************)

ConstructInit ==
    /\ cfg = ScenarioConfig
    /\ training = TRUE
    /\ RetentionIdle
    /\ ForwardIdle
    /\ init_vectors \in Paths \cup {<<>>}
    /\ fix_class_prompts \in BOOLEAN
    /\ d_in \in {DModel, DModel + 1}
    /\ cpc = "start"
    /\ cerror = "none"
    /\ loaded = None
    /\ prompt_kind = "none"
    /\ convert_vector = "unset"
    /\ OthersIdle

ConstructFail(e) ==
    /\ cerror' = e
    /\ cpc' = "failed"

\* lines 87-93: the file is loaded by the last three characters of its
\* path.  The name torch of line 89 is bound by no import of the module
\* (lines 5-13), so that line raises NameError.
ConstructLoad ==
    /\ cpc = "start"
    /\ init_vectors # <<>>
    /\ IF LastThree(init_vectors) = <<"p", "t", "h">>
       THEN /\ ConstructFail("NameError")
            /\ UNCHANGED loaded
       ELSE IF LastThree(init_vectors) = <<"n", "p", "y">>
       THEN /\ loaded' = Some([vectors |-> FileArray, dim |-> d_in])
            /\ cpc' = "loaded"
            /\ UNCHANGED cerror
       ELSE /\ ConstructFail("KeyError")
            /\ UNCHANGED loaded
    /\ UNCHANGED <<init_vectors, fix_class_prompts, d_in, prompt_kind,
                   convert_vector, xvars, rvars, ivars, tvars>>

\* lines 94-98: the loaded array is kept as a buffer when the prompts are
\* fixed, as a parameter set to the loaded values otherwise
ConstructStoreLoaded ==
    /\ cpc = "loaded"
    /\ prompt_kind' = IF fix_class_prompts THEN "buffer" ELSE "parameter"
    /\ class_prompts' = loaded.val.vectors
    /\ cpc' = "stored"
    /\ UNCHANGED <<init_vectors, fix_class_prompts, d_in, cerror, loaded,
                   convert_vector, xvars, rvars, tvars, num_blocks,
                   retain,
                   classifier_out, targets, ipc, lid, tgt_class,
                   origin_class_vector, output_label_logits, output_feats,
                   outputs, aux_outputs, error, criterion_calls,
                   indicator_return, classifier_calls, produced,
                   called_before>>

\* lines 101-106: no file.  The assertion of line 104 comes after the zeros
\* of line 103 and before the parameter is registered.  Lines 105-106 name
\* nn.Parameter, register_parameter and nn.init.normal_, which the module
\* nn imported at line 6 may or may not provide: either the parameter is
\* registered or AttributeError is raised.
ConstructRandInit ==
    /\ cpc = "start"
    /\ init_vectors = <<>>
    /\ loaded' = Some([vectors |-> RandomArray, dim |-> DModel])
    /\ IF ~RandInitAllowed(fix_class_prompts)
       THEN /\ ConstructFail("AssertionError")
            /\ UNCHANGED <<prompt_kind, class_prompts>>
       ELSE \/ /\ prompt_kind' = "parameter"
               /\ class_prompts' = loaded'.val.vectors
               /\ cpc' = "stored"
               /\ UNCHANGED cerror
            \/ /\ ConstructFail("AttributeError")
               /\ UNCHANGED <<prompt_kind, class_prompts>>
    /\ UNCHANGED <<init_vectors, fix_class_prompts, d_in, convert_vector,
                   xvars, rvars, tvars, num_blocks, retain, classifier_out,
                   targets,
                   ipc, lid, tgt_class, origin_class_vector,
                   output_label_logits, output_feats, outputs, aux_outputs,
                   error, criterion_calls, indicator_return,
                   classifier_calls, produced, called_before>>

\* lines 109-113: the projection when the dimensions differ
ConstructProjection ==
    /\ cpc = "stored"
    /\ convert_vector' = ConvertVectorFor(loaded.val.dim)
    /\ cpc' = "constructed"
    /\ UNCHANGED <<init_vectors, fix_class_prompts, d_in, cerror, loaded,
                   prompt_kind, xvars, rvars, ivars, tvars>>

ConstructNext ==
    \/ ConstructLoad
    \/ ConstructStoreLoaded
    \/ ConstructRandInit
    \/ ConstructProjection

ConstructSpec == ConstructInit /\ [][ConstructNext]_vars

(***************************************************************************)
(* The label classifiers of PromptIndicator.__init__ (lines 75-76).  An    *)
(* object is known by its identity; heap gives the weight each object      *)
(* holds.                                                                  *)
(***************************************************************************)

Weights == 0 .. MaxWeight

\* line 76: [self.classifier_label for _ in range(self.num_blocks)]: the
\* one object, once per layer
RepeatInstance(obj, n) == [i \in 1 .. n |-> obj]

ClassifierInit ==
    /\ cfg = ScenarioConfig
    /\ training = TRUE
    /\ RetentionIdle
    /\ ForwardIdle
    /\ ConstructIdle
    /\ kpc = "start"
    /\ clf_blocks \in 1 .. MaxBlocks
    /\ heap = <<>>
    /\ classifier_label = <<>>
    /\ changed = [some |-> FALSE]
    /\ OverwriteIdle
    /\ ResNetIdle

\* line 75: build_label_classifier makes one classifier object
ClassifierBuild ==
    /\ kpc = "start"
    /\ \E w \in Weights : heap' = (1 :> w)
    /\ classifier_label' = 1
    /\ kpc' = "built"
    /\ UNCHANGED <<clf_blocks, changed, rvars, ivars, tvars, pvars, ovars,
                   svars>>

\* line 76: the list of the layers' classifiers
ClassifierList ==
    /\ kpc = "built"
    /\ classifier_label' = RepeatInstance(classifier_label, clf_blocks)
    /\ kpc' = "listed"
    /\ UNCHANGED <<clf_blocks, heap, changed, rvars, ivars, tvars, pvars,
                   ovars, svars>>

\* the weight of the classifier of one layer, self.classifier_label[i], is
\* changed; the weights every layer's classifier held before are noted
ClassifierChange ==
    /\ kpc = "listed"
    /\ \E i \in 1 .. clf_blocks : \E w \in Weights :
          /\ heap' = [heap EXCEPT ![classifier_label[i]] = w]
          /\ changed' =
                [some |-> TRUE, layer |-> i,
                 before |-> [j \in 1 .. clf_blocks |-> heap[classifier_label[j]]]]
    /\ UNCHANGED <<kpc, clf_blocks, classifier_label, rvars, ivars, tvars,
                   pvars, ovars, svars>>

ClassifierNext ==
    \/ ClassifierBuild
    \/ ClassifierList
    \/ ClassifierChange

ClassifierSpec == ClassifierInit /\ [][ClassifierNext]_vars

(***************************************************************************)
(* _ovewrite_named_param and the ResNeXt / Wide-ResNet factories of        *)
(* _resnet.py.  A keyword mapping is a function over the names it holds.   *)
(***************************************************************************)

\* Mutant of OverwriteNamedParam: the value is written over whatever the
\* caller gave.
OverwriteNamedParamForce(kw, param, new_value) ==
    [raised |-> FALSE,
     kwargs |-> (param :> new_value) @@ [p \in DOMAIN kw \ {param} |-> kw[p]]]

\* lines 81-86: the mapping after the call, and whether ValueError was
\* raised
OverwriteNamedParam(kw, param, new_value) ==
    IF param \in DOMAIN kw
    THEN IF kw[param] # new_value
         THEN [raised |-> TRUE, kwargs |-> kw]
         ELSE [raised |-> FALSE, kwargs |-> kw]
    ELSE [raised |-> FALSE, kwargs |-> (param :> new_value) @@ kw]

\* lines 977-978, 1007-1008, 1037-1038, 1072, 1106: the values each factory
\* fixes, in the order of its calls
FactoryParams ==
    [resnext50_32x4d |->
        <<[param |-> "groups", value |-> 32],
          [param |-> "width_per_group", value |-> 4]>>,
     resnext101_32x8d |->
        <<[param |-> "groups", value |-> 32],
          [param |-> "width_per_group", value |-> 8]>>,
     resnext101_64x4d |->
        <<[param |-> "groups", value |-> 64],
          [param |-> "width_per_group", value |-> 4]>>,
     wide_resnet50_2 |->
        <<[param |-> "width_per_group", value |-> 64 * 2]>>,
     wide_resnet101_2 |->
        <<[param |-> "width_per_group", value |-> 64 * 2]>>]

\* lines 979, 1009, 1039, 1073, 1107: the layers each factory asks for
FactoryLayers ==
    [resnext50_32x4d |-> <<3, 4, 6, 3>>,
     resnext101_32x8d |-> <<3, 4, 23, 3>>,
     resnext101_64x4d |-> <<3, 4, 23, 3>>,
     wide_resnet50_2 |-> <<3, 4, 6, 3>>,
     wide_resnet101_2 |-> <<3, 4, 23, 3>>]

Factories == DOMAIN FactoryParams

\* the values a caller gives for groups or width_per_group
KwargValues == {4, 8, 32, 64, 128}

\* the keyword arguments a caller gives
KwargInputs ==
    UNION { [names -> KwargValues] :
            names \in SUBSET {"groups", "width_per_group"} }

\* the weights a caller gives: none, a name, or an object of another class.
\* The weights enumerations have no member (lines 624-802).
WeightInputs == {None, Some("name"), Some("object")}

OverwriteInit ==
    /\ cfg = ScenarioConfig
    /\ training = TRUE
    /\ RetentionIdle
    /\ ForwardIdle
    /\ ConstructIdle
    /\ ClassifierIdle
    /\ ResNetIdle
    /\ factory \in Factories
    /\ weights \in WeightInputs
    /\ given_kwargs \in KwargInputs
    /\ kwargs = <<>>
    /\ pending = <<>>
    /\ opc = "start"
    /\ oerror = "none"
    /\ model = None
    /\ overwrite_calls = <<>>
    /\ again = FALSE

\* lines 141-150 and 975: verify.  A name is looked up among the members
\* of the enumeration, of which there is none (line 118: ValueError); an
\* object of another class is refused (line 146: TypeError).  **kwargs
\* is a new mapping holding the caller's keyword arguments.
FactoryVerify ==
    /\ opc = "start"
    /\ IF weights.some
       THEN /\ oerror' = IF weights.val = "name" THEN "ValueError"
                         ELSE "TypeError"
            /\ opc' = "raised"
            /\ UNCHANGED <<kwargs, pending>>
       ELSE /\ kwargs' = given_kwargs
            /\ pending' = FactoryParams[factory]
            /\ opc' = "overwrite"
            /\ UNCHANGED oerror
    /\ UNCHANGED <<factory, weights, given_kwargs, model, overwrite_calls,
                   again, rvars, ivars, tvars, pvars, kvars, svars>>

\* lines 977-978: the next call of _ovewrite_named_param
FactoryOverwrite ==
    /\ opc = "overwrite"
    /\ pending # <<>>
    /\ LET call == Head(pending)
           r == OverwriteNamedParam(kwargs, call.param, call.value)
       IN  /\ kwargs' = r.kwargs
           /\ overwrite_calls' =
                 Append(overwrite_calls,
                        [param |-> call.param, value |-> call.value,
                         before |-> kwargs, after |-> r.kwargs,
                         raised |-> r.raised])
           /\ IF r.raised
              THEN /\ oerror' = "ValueError"
                   /\ opc' = "raised"
                   /\ UNCHANGED pending
              ELSE /\ pending' = Tail(pending)
                   /\ UNCHANGED <<oerror, opc>>
    /\ UNCHANGED <<factory, weights, given_kwargs, model, again,
                   rvars, ivars, tvars, pvars, kvars, svars>>

\* lines 979 and 439-454: _resnet constructs the ResNet; weights is None
\* here, so that lines 447 and 452 are not run
FactoryResnet ==
    /\ opc = "overwrite"
    /\ pending = <<>>
    /\ model' = Some([block |-> "Bottleneck",
                      layers |-> FactoryLayers[factory],
                      kwargs |-> kwargs])
    /\ opc' = "done"
    /\ UNCHANGED <<factory, weights, given_kwargs, kwargs, pending, oerror,
                   overwrite_calls, again,
                   rvars, ivars, tvars, pvars, kvars, svars>>

\* lines 81-86: the last call of _ovewrite_named_param is made once more
\* on the mapping it left
OverwriteAgain ==
    /\ opc \in {"done", "raised"}
    /\ overwrite_calls # <<>>
    /\ ~again
    /\ LET call == overwrite_calls[Len(overwrite_calls)]
           r == OverwriteNamedParam(kwargs, call.param, call.value)
       IN  /\ kwargs' = r.kwargs
           /\ overwrite_calls' =
                 Append(overwrite_calls,
                        [param |-> call.param, value |-> call.value,
                         before |-> kwargs, after |-> r.kwargs,
                         raised |-> r.raised])
    /\ again' = TRUE
    /\ UNCHANGED <<factory, weights, given_kwargs, pending, opc, oerror, model,
                   rvars, ivars, tvars, pvars, kvars, svars>>

OverwriteNext ==
    \/ FactoryVerify
    \/ FactoryOverwrite
    \/ FactoryResnet
    \/ OverwriteAgain

OverwriteSpec == OverwriteInit /\ [][OverwriteNext]_vars

(***************************************************************************)
(* ResNet.__init__ and ResNet._make_layer.  A stage is known by the stride *)
(* it applies, the dilation before and after it, and its blocks; a block   *)
(* by the arguments it was constructed with.                               *)
(***************************************************************************)

\* the most blocks a stage is asked to have
MaxStageBlocks == 2

\* lines 210 and 265: block.expansion
Expansion(b) == IF b = "Bottleneck" THEN 4 ELSE 1

\* lines 350-353: planes and stride of the four _make_layer calls
StagePlanes == <<64, 128, 256, 512>>
StageStride == <<1, 2, 2, 2>>

\* Mutant of NewDilation: self.dilation is left as it was.
NewDilationUnchanged(d, stride, dilate) == d

\* lines 387-389: self.dilation and stride after the test of dilate
NewDilation(d, stride, dilate) == IF dilate THEN d * stride ELSE d
AppliedStride(stride, dilate) == IF dilate THEN 1 ELSE stride

\* lines 212-247 and 267-289: the constructor of a block.  BasicBlock
\* refuses groups, widths and dilations other than the defaults.
Block(b, inp, planes, stride, downsample, grp, base_width, dil) ==
    IF b = "BasicBlock" /\ (grp # 1 \/ base_width # 64)
    THEN [ok |-> FALSE, error |-> "ValueError"]
    ELSE IF b = "BasicBlock" /\ dil > 1
    THEN [ok |-> FALSE, error |-> "NotImplementedError"]
    ELSE [ok |-> TRUE,
          val |-> [inplanes |-> inp, planes |-> planes,
                   stride |-> stride, downsample |-> downsample,
                   dilation |-> dil,
                   width |-> IF b = "Bottleneck"
                             THEN ((planes * base_width) \div 64) * grp
                             ELSE planes]]

\* argument replace_stride_with_dilation: None, three flags, or two
ReplaceInputs ==
    {None} \cup {Some(r) : r \in [1 .. 3 -> BOOLEAN]}
           \cup {Some(<<TRUE, FALSE>>)}

ResNetInit ==
    /\ cfg = ScenarioConfig
    /\ training = TRUE
    /\ RetentionIdle
    /\ ForwardIdle
    /\ ConstructIdle
    /\ ClassifierIdle
    /\ OverwriteIdle
    /\ block \in {"BasicBlock", "Bottleneck"}
    /\ layers \in [1 .. 4 -> 1 .. MaxStageBlocks]
    /\ \E g \in {<<1, 64>>, <<32, 4>>} :
          /\ groups = g[1]
          /\ width_per_group = g[2]
    /\ replace_given \in ReplaceInputs
    /\ replace_stride_with_dilation = <<>>
    /\ spc = "start"
    /\ serror = "none"
    /\ inplanes = 0
    /\ dilation = 0
    /\ stages = <<>>
    /\ fc_in = 0

\* lines 335-345: the starting planes and dilation, and the flags
ResNetStart ==
    /\ spc = "start"
    /\ inplanes' = 64
    /\ dilation' = 1
    /\ replace_stride_with_dilation' =
          IF replace_given.some THEN replace_given.val
          ELSE <<FALSE, FALSE, FALSE>>
    /\ IF Len(replace_stride_with_dilation') # 3
       THEN /\ serror' = "ValueError"
            /\ spc' = "raised"
       ELSE /\ spc' = "stages"
            /\ UNCHANGED serror
    /\ UNCHANGED <<block, layers, groups, width_per_group, replace_given,
                   stages, fc_in, rvars, ivars, tvars, pvars, kvars, ovars>>

\* lines 350-353 and 376-415: the next call of _make_layer
MakeLayer ==
    /\ spc = "stages"
    /\ Len(stages) < 4
    /\ LET k == Len(stages) + 1
           planes == StagePlanes[k]
           blocks == layers[k]
           dilate == IF k = 1 THEN FALSE
                     ELSE replace_stride_with_dilation[k - 1]
           previous_dilation == dilation
           new_dilation == NewDilation(dilation, StageStride[k], dilate)
           stride == AppliedStride(StageStride[k], dilate)
           downsample ==
               stride # 1 \/ inplanes # planes * Expansion(block)
           first == Block(block, inplanes, planes, stride, downsample,
                          groups, width_per_group, previous_dilation)
           rest == Block(block, planes * Expansion(block), planes, 1, FALSE,
                         groups, width_per_group, new_dilation)
       IN  /\ dilation' = new_dilation
           /\ IF ~first.ok
              THEN /\ serror' = first.error
                   /\ spc' = "raised"
                   /\ UNCHANGED <<inplanes, stages>>
              ELSE IF blocks > 1 /\ ~rest.ok
              THEN /\ serror' = rest.error
                   /\ spc' = "raised"
                   /\ inplanes' = planes * Expansion(block)
                   /\ UNCHANGED stages
              ELSE /\ inplanes' = planes * Expansion(block)
                   /\ stages' =
                         Append(stages,
                                [stride |-> stride,
                                 previous_dilation |-> previous_dilation,
                                 dilation |-> new_dilation,
                                 blocks |-> <<first.val>> \o
                                     [i \in 1 .. (blocks - 1) |-> rest.val]])
                   /\ UNCHANGED <<serror, spc>>
    /\ UNCHANGED <<block, layers, groups, width_per_group, replace_given,
                   replace_stride_with_dilation, fc_in,
                   rvars, ivars, tvars, pvars, kvars, ovars>>

\* lines 354-355: the pooling and the fully connected layer
ResNetFc ==
    /\ spc = "stages"
    /\ Len(stages) = 4
    /\ fc_in' = 512 * Expansion(block)
    /\ spc' = "built"
    /\ UNCHANGED <<block, layers, groups, width_per_group, replace_given,
                   replace_stride_with_dilation, serror, inplanes, dilation,
                   stages, rvars, ivars, tvars, pvars, kvars, ovars>>

ResNetNext ==
    \/ ResNetStart
    \/ MakeLayer
    \/ ResNetFc

ResNetSpec == ResNetInit /\ [][ResNetNext]_vars

(***************************************************************************)
(* Claims about RetentionPolicy.forward.                                   *)
(***************************************************************************)

\* The configured bounds and threshold of the active mode.
ModeMin == IF training THEN cfg.train_min_classes ELSE cfg.eval_min_classes
ModeMax == IF training THEN cfg.train_max_classes ELSE cfg.eval_max_classes
ModeThr == IF training THEN cfg.train_class_thr ELSE cfg.eval_class_thr

\* min_b and max_b: the configured bounds, lowered to num_classes[b] when
\* num_classes is supplied.
MinOf(b) == IF num_classes.some THEN Min2(ModeMin, num_classes.val[b]) ELSE ModeMin
MaxOf(b) == IF num_classes.some THEN Min2(ModeMax, num_classes.val[b]) ELSE ModeMax

BatchImages == DOMAIN label_logits
ClassesOf(b) == DOMAIN label_logits[b]
NumClassesOf(b) == Cardinality(ClassesOf(b))

\* the images the loop has already handled
Handled == {b \in BatchImages : b < Len(cls_idx)}

StrictlyIncreasing(seq) == \A i \in 1 .. (Len(seq) - 1) : seq[i] < seq[i + 1]

\* <<0, 1, ..., n-1>>
AllIndices(n) == [i \in 1 .. n |-> i - 1]

\* C1: every per-image retain count k_b lies between min_b and max_b, the
\* configured bounds of the active mode lowered to num_classes[b] when
\* num_classes is supplied.
C1_RetainCountWithinBounds ==
    pc # "call" =>
        \A b \in BatchImages : MinOf(b) <= num_train[b] /\ num_train[b] <= MaxOf(b)

\* C1 witness: num_classes lowers the minimum of an image below the
\* configured one and the count of that image is raised to it.
C1_Witness ==
    /\ pc = "done"
    /\ num_classes.some
    /\ \E b \in BatchImages :
          /\ 0 < num_classes.val[b]
          /\ num_classes.val[b] < ModeMin
          /\ num_train[b] = num_classes.val[b]
          /\ NumAboveThr(label_prob, ModeThr)[b] < num_train[b]

\* C2 as stated: the class indices of every image are strictly increasing,
\* lie in 0..C-1 and number exactly k_b, also for bounds larger than C.
C2_ExactlyRetainCountIndices ==
    \A b \in Handled :
        /\ StrictlyIncreasing(cls_idx[b + 1])
        /\ \A i \in 1 .. Len(cls_idx[b + 1]) : cls_idx[b + 1][i] \in ClassesOf(b)
        /\ Len(cls_idx[b + 1]) = num_train[b]

\* C2 amended: the class indices of every image are strictly increasing,
\* lie in 0..C-1 and number exactly min(k_b, C).
C2_IndicesIncreasingAndCapped ==
    \A b \in Handled :
        /\ StrictlyIncreasing(cls_idx[b + 1])
        /\ \A i \in 1 .. Len(cls_idx[b + 1]) : cls_idx[b + 1][i] \in ClassesOf(b)
        /\ Len(cls_idx[b + 1]) = Min2(num_train[b], NumClassesOf(b))

\* C2 witness: a retain count above C, and an image whose C indices all come
\* out, in ascending order although the ranking is not.
C2_Witness ==
    /\ pc = "done"
    /\ \E b \in BatchImages :
          /\ num_train[b] > NumClassesOf(b)
          /\ cls_idx[b + 1] = AllIndices(NumClassesOf(b))
          /\ \E c \in ClassesOf(b) : label_prob[b][c] > label_prob[b][0]

\* Sum of k(b) over the images below b.
RECURSIVE OffsetOf(_, _)
OffsetOf(k, b) == IF b = 0 THEN 0 ELSE OffsetOf(k, b - 1) + k[b - 1]

\* The flat pair is laid out image by image with k[b] entries for image b.
FlatLayout(k) ==
    LET bs == result.val.bs_idx
        cls == result.val.cls_idx
        B == Cardinality(BatchImages)
    IN  /\ Len(bs) = Len(cls)
        /\ Len(bs) = OffsetOf(k, B)
        /\ \A i \in 1 .. (Len(bs) - 1) : bs[i] <= bs[i + 1]
        /\ \A b \in BatchImages :
              /\ Cardinality({i \in 1 .. Len(bs) : bs[i] = b}) = k[b]
              /\ \A i \in 1 .. k[b] :
                    /\ bs[OffsetOf(k, b) + i] = b
                    /\ cls[OffsetOf(k, b) + i] = cls_idx[b + 1][i]

\* C3 as stated: the two flat arrays have the same length, the sum of the
\* k_b; batch_index is non-decreasing and holds each image b exactly k_b
\* times, in one run aligned with the class indices of b.
C3_FlatLayoutByRetainCount ==
    result.some => FlatLayout(num_train)

\* C3 amended: the same with min(k_b, C) in the place of k_b.
C3_FlatLayoutByCappedCount ==
    result.some =>
        FlatLayout([b \in BatchImages |-> Min2(num_train[b], NumClassesOf(b))])

\* C3 witness: a returned pair in which two images keep different, non-zero
\* numbers of classes.
C3_Witness ==
    /\ result.some
    /\ \E b1, b2 \in BatchImages :
          /\ 0 < Len(cls_idx[b1 + 1])
          /\ Len(cls_idx[b1 + 1]) < Len(cls_idx[b2 + 1])

\* C4: the effective probability of class c of image b is the forced value
\* exactly when the policy is training, forced probabilities are supplied
\* and the forced value is >= 0; otherwise it is the sigmoid of the logit.
C4_EffectiveProbability ==
    pc # "call" =>
        \A b \in BatchImages : \A c \in ClassesOf(b) :
            LET forced == /\ training
                          /\ force_sample_probs.some
                          /\ force_sample_probs.val[b][c] >= 0
            IN  /\ forced => label_prob[b][c] = force_sample_probs.val[b][c]
                /\ ~forced => label_prob[b][c] = Sigmoid(label_logits[b][c])

\* C4 witness: training, a forced value that differs from the sigmoid and
\* replaces it, next to an entry left to the sigmoid.
C4_Witness ==
    /\ pc = "done"
    /\ training
    /\ force_sample_probs.some
    /\ \E b \in BatchImages : \E c, d \in ClassesOf(b) :
          /\ force_sample_probs.val[b][c] >= 0
          /\ force_sample_probs.val[b][c] # Sigmoid(label_logits[b][c])
          /\ label_prob[b][c] = force_sample_probs.val[b][c]
          /\ force_sample_probs.val[b][d] < 0
          /\ label_prob[b][d] = Sigmoid(label_logits[b][d])

\* C5: with num_classes supplied, k_b <= num_classes[b] for every image in
\* both modes, and an image with num_classes[b] = 0 gets no class index.
C5_RetainCountAtMostNumClasses ==
    (pc # "call" /\ num_classes.some) =>
        /\ \A b \in BatchImages : num_train[b] <= num_classes.val[b]
        /\ \A b \in Handled : num_classes.val[b] = 0 => cls_idx[b + 1] = <<>>

\* C5 witness: num_classes[b] = 0 with a configured minimum >= 1 and classes
\* above the threshold; the image ends with an empty selection.
C5_Witness ==
    /\ pc = "done"
    /\ num_classes.some
    /\ ModeMin >= 1
    /\ \E b \in BatchImages :
          /\ num_classes.val[b] = 0
          /\ NumAboveThr(label_prob, ModeThr)[b] > 0
          /\ cls_idx[b + 1] = <<>>

\* C6 as stated: with min_classes = max_classes = C every image gets all C
\* class indices in ascending order, whatever the optional inputs.
C6_FullRetentionAlways ==
    (pc = "done" /\ \A b \in BatchImages : ModeMin = NumClassesOf(b) /\ ModeMax = NumClassesOf(b)) =>
        \A b \in BatchImages : cls_idx[b + 1] = AllIndices(NumClassesOf(b))

\* C6 amended: with min_classes = max_classes = C, every image for which
\* num_classes is not supplied or num_classes[b] >= C gets all C class
\* indices in ascending order.
C6_FullRetentionUnlessClipped ==
    (pc = "done" /\ \A b \in BatchImages : ModeMin = NumClassesOf(b) /\ ModeMax = NumClassesOf(b)) =>
        \A b \in BatchImages :
            (~num_classes.some \/ num_classes.val[b] >= NumClassesOf(b)) =>
                cls_idx[b + 1] = AllIndices(NumClassesOf(b))

\* C6 witness: min = max = C, fewer than C classes above the threshold, and
\* all C indices returned for an image.
C6_Witness ==
    /\ pc = "done"
    /\ \A b \in BatchImages : ModeMin = NumClassesOf(b) /\ ModeMax = NumClassesOf(b)
    /\ \E b \in BatchImages :
          /\ NumAboveThr(label_prob, ModeThr)[b] < NumClassesOf(b)
          /\ cls_idx[b + 1] = AllIndices(NumClassesOf(b))

\* C7: with min_classes = max_classes = 0 the call returns, every image has
\* an empty class-index array and both flat arrays are empty.
C7_EmptyRetention ==
    (ModeMin = 0 /\ ModeMax = 0) =>
        /\ \A b \in Handled : cls_idx[b + 1] = <<>> /\ bs_idx[b + 1] = <<>>
        /\ pc = "done" =>
              /\ result.some
              /\ result.val.bs_idx = <<>>
              /\ result.val.cls_idx = <<>>

\* C7 witness: min = max = 0, classes above the threshold in every image,
\* and the call has returned.
C7_Witness ==
    /\ ModeMin = 0 /\ ModeMax = 0
    /\ pc = "done"
    /\ result.some
    /\ \A b \in BatchImages : NumAboveThr(label_prob, ModeThr)[b] > 0

\* the inputs of the end-to-end scenario
ScenarioInputs ==
    /\ cfg = ScenarioConfig
    /\ label_logits = [b \in 0 .. 1 |-> IF b = 0 THEN ScenarioRowA ELSE ScenarioRowB]
    /\ ~force_sample_probs.some
    /\ ~num_classes.some

\* C8: in the end-to-end scenario the call returns batch_index = [0,0,1]
\* and class_index = [0,2,0].
C8_ScenarioResult ==
    (ScenarioInputs /\ pc = "done") =>
        /\ result.val.bs_idx = <<0, 0, 1>>
        /\ result.val.cls_idx = <<0, 2, 0>>

(***************************************************************************)
(* Claims about PromptIndicator.forward and Transformer.forward.           *)
(***************************************************************************)

\* the state after the last prompt block
FinalState == output_feats[Len(output_feats)]

\* what the object decoder was given in its call
DecoderInfo == decoder_calls[1].additional_info

\* C9: the returned outputs hold 'bs_idx' and 'cls_idx' if and only if
\* retention is enabled.  Enabled: 'tgt_class' is the (S, D) gather whose
\* row i is the final state at [bs_idx[i], cls_idx[i]] and
\* 'cls_output_feats' is the full final state.  Disabled: 'tgt_class' is the
\* full final state and the object decoder is given bs_idx = None and
\* cls_idx = None.
C9_OutputsFollowRetention ==
    indicator_return.some =>
        LET out == indicator_return.val.outputs
        IN  /\ ("bs_idx" \in DOMAIN out) <=> retain
            /\ ("cls_idx" \in DOMAIN out) <=> retain
            /\ out["cls_output_feats"] = FinalState
            /\ retain =>
                  /\ Len(out["bs_idx"]) = Len(out["cls_idx"])
                  /\ DOMAIN out["tgt_class"] = 1 .. Len(out["bs_idx"])
                  /\ \A i \in 1 .. Len(out["bs_idx"]) :
                        out["tgt_class"][i] =
                            FinalState[out["bs_idx"][i]][out["cls_idx"][i]]
            /\ ~retain =>
                  /\ out["tgt_class"] = FinalState
                  /\ decoder_calls # <<>> =>
                        /\ DecoderInfo.bs_idx = None
                        /\ DecoderInfo.cls_idx = None
                        /\ DecoderInfo.class_vector = FinalState

\* C9 witness: retention enabled, vectors of two images gathered, and the
\* object decoder called with the two index arrays.
C9_Witness ==
    /\ tpc = "done"
    /\ with_prompt_indicator
    /\ retain
    /\ decoder_calls # <<>>
    /\ DecoderInfo.bs_idx.some
    /\ \E i, j \in 1 .. Len(DecoderInfo.bs_idx.val) :
          /\ DecoderInfo.bs_idx.val[i] # DecoderInfo.bs_idx.val[j]
          /\ DecoderInfo.class_vector[i].img = DecoderInfo.bs_idx.val[i]
          /\ DecoderInfo.class_vector[j].img = DecoderInfo.bs_idx.val[j]

\* the errors that say that the targets are missing: the failed assertion
\* of line 183 and the iteration over None of lines 166-167
MissingTargetErrors == {"AssertionError", "TypeError"}

\* C10: a call of PromptIndicator.forward without targets fails with a
\* missing-target error in every configuration; the criterion is never
\* called and nothing is returned.
C10_MissingTargetsRejected ==
    ~targets.some =>
        /\ criterion_calls = <<>>
        /\ ~indicator_return.some
        /\ ipc # "returned"
        /\ ipc = "raised" => error \in MissingTargetErrors

(***************************************************************************)
(* Claims about the target fields read by PromptIndicator.forward.         *)
(***************************************************************************)

\* the positions of PromptIndicator.forward after line 168
AfterSelection == {"retention", "aux", "criterion", "returned"}

\* every record of the targets has the field
EveryRecordHas(key) ==
    \A i \in 1 .. Len(targets.val) : key \in DOMAIN targets.val[i]

\* C11: with retention enabled, 'num_classes' is read from every target
\* record in both modes and 'force_sample_probs' only in training mode: in
\* evaluation mode records without 'force_sample_probs' do not fail and no
\* forced probabilities reach the policy.  With retention disabled neither
\* field is read.
C11_TargetFieldsRead ==
    /\ error = "KeyError" =>
          /\ retain
          /\ targets.some
          /\ \/ ~EveryRecordHas("num_classes")
             \/ training /\ ~EveryRecordHas("force_sample_probs")
    /\ (retain /\ ipc \in AfterSelection) =>
          /\ targets.some
          /\ EveryRecordHas("num_classes")
          /\ num_classes =
                Some([b \in Images |-> targets.val[b + 1]["num_classes"]])
          /\ training =>
                /\ EveryRecordHas("force_sample_probs")
                /\ force_sample_probs =
                      Some([b \in Images |->
                               targets.val[b + 1]["force_sample_probs"]])
          /\ ~training => force_sample_probs = None
    /\ ~retain =>
          /\ error \notin {"KeyError", "TypeError"}
          /\ force_sample_probs = None
          /\ num_classes = None

\* C11 witness: an evaluation-mode call with retention enabled whose
\* records have no 'force_sample_probs' has returned, the policy having been
\* given the records' class counts and no forced probabilities.
C11_Witness ==
    /\ ipc = "returned"
    /\ retain
    /\ ~training
    /\ targets.some
    /\ ~EveryRecordHas("force_sample_probs")
    /\ result.some
    /\ num_classes.some
    /\ force_sample_probs = None

(***************************************************************************)
(* Claims about the construction of the class prompts.                     *)
(***************************************************************************)

\* the positions of the dots of a path
Dots(path) == {i \in 1 .. Len(path) : path[i] = "."}

\* the file extension of a path: what follows its last dot, <<>> when the
\* path has no dot
Extension(path) ==
    IF Dots(path) = {}
    THEN <<>>
    ELSE LET last == CHOOSE i \in Dots(path) : \A j \in Dots(path) : j <= i
         IN  SubSeq(path, last + 1, Len(path))

RecognizedExtensions == {<<"n", "p", "y">>, <<"p", "t", "h">>}

\* C12: construction with an initialization path whose file extension is
\* not one of the two recognized ones fails at once with the configuration
\* error of line 93 (KeyError), before any prompt state is stored; no such
\* path is accepted.
C12_UnrecognizedExtensionRejected ==
    (init_vectors # <<>> /\ Extension(init_vectors) \notin RecognizedExtensions) =>
        /\ cpc \in {"start", "failed"}
        /\ cpc = "failed" => cerror = "KeyError"
        /\ loaded = None
        /\ prompt_kind = "none"
        /\ class_prompts = <<>>

\* C13: construction with a path of extension '.npy' or '.pth' loads the
\* array of the file and completes without error, storing it as the class
\* prompts.
C13_RecognizedExtensionsLoad ==
    (init_vectors # <<>> /\ Extension(init_vectors) \in RecognizedExtensions) =>
        /\ cpc # "failed"
        /\ cerror = "none"
        /\ cpc \in {"stored", "constructed"} => class_prompts = FileArray

\* C14: construction with no initialization source and prompts marked
\* fixed fails with the configuration error of line 104 (AssertionError):
\* no class prompts are stored and construction never completes.
C14_FixedWithoutSourceRejected ==
    (init_vectors = <<>> /\ fix_class_prompts /\ cpc # "idle") =>
        /\ cpc \in {"start", "failed"}
        /\ cpc = "failed" => cerror = "AssertionError"
        /\ prompt_kind = "none"
        /\ class_prompts = <<>>
        /\ convert_vector = "unset"

\* C14 witness: such a construction has failed on the assertion.
C14_Witness ==
    /\ init_vectors = <<>>
    /\ fix_class_prompts
    /\ cpc = "failed"
    /\ cerror = "AssertionError"
    /\ class_prompts = <<>>

(***************************************************************************)
(* Claims about the prompt refinement of PromptIndicator.forward.          *)
(***************************************************************************)

\* the class prompts a constructed indicator holds
StoredPrompts == [c \in Classes |-> PromptVector(c)]

\* the vector of class c after one projection, when there is a projection
ProducedVector(c) ==
    IF convert_vector = "linear"
    THEN [PromptVector(c) EXCEPT !.projected = 1]
    ELSE PromptVector(c)

\* C15: forward never modifies the stored class prompts: the batched state
\* is a tiled copy that the layers refine while the stored prompts stay as
\* constructed, and the vectors produced (projected when there is a
\* projection, then tiled) by two successive forward calls are identical.
C15_ClassPromptsNeverModified ==
    /\ class_prompts = StoredPrompts
    /\ \A i \in 1 .. Len(produced) :
          /\ DOMAIN produced[i] = Images
          /\ \A b \in Images : \A c \in Classes :
                produced[i][b][c] = ProducedVector(c)
    /\ \A i, j \in 1 .. Len(produced) : produced[i] = produced[j]
    /\ ipc = "layers" => origin_class_vector = produced[Len(produced)]

\* C15 witness: the second of two forward calls of an indicator with a
\* projection has tiled its vectors and refined the batched state.
C15_Witness ==
    /\ called_before
    /\ Len(produced) = 2
    /\ convert_vector = "linear"
    /\ ipc = "layers"
    /\ lid > 0
    /\ tgt_class # origin_class_vector
    /\ produced[1] = produced[2]

\* the layers 0 .. n-1 in order
LayersUpTo(n) == [i \in 1 .. n |-> i - 1]

\* C20: the N layers run in the order 0 .. N-1 without early exit; after
\* layer i the classifier of index i is called on the state layer i has
\* just produced, conditioned on the tiled prompts as they were before any
\* refinement; exactly N logit arrays are produced and the final state is
\* the output of layer N-1.
C20_LayersAndClassifiers ==
    ipc \in {"layers", "select", "retention", "aux", "criterion", "returned"} =>
        /\ lid <= num_blocks
        /\ ipc # "layers" => lid = num_blocks
        /\ Len(classifier_calls) = lid
        /\ Len(output_label_logits) = lid
        /\ Len(output_feats) = lid
        /\ \A i \in 1 .. lid :
              /\ classifier_calls[i].lid = i - 1
              /\ classifier_calls[i].tgt_class = output_feats[i]
              /\ classifier_calls[i].class_vector = produced[Len(produced)]
              /\ output_label_logits[i] = classifier_out[i - 1]
              /\ \A b \in Images : \A c \in Classes :
                    /\ output_feats[i][b][c].layers = LayersUpTo(i)
                    /\ classifier_calls[i].class_vector[b][c].layers = <<>>
        /\ lid > 0 => tgt_class = output_feats[lid]
        /\ origin_class_vector = produced[Len(produced)]

\* C20 witness: a call with three layers has returned after three
\* classifier calls.
C20_Witness ==
    /\ ipc = "returned"
    /\ num_blocks = MaxBlocks
    /\ Len(classifier_calls) = MaxBlocks
    /\ classifier_calls[MaxBlocks].tgt_class # classifier_calls[1].tgt_class
    /\ \A b \in Images : \A c \in Classes :
          tgt_class[b][c].layers = LayersUpTo(MaxBlocks)

(***************************************************************************)
(* Claims about the retain count and the ranking of the retention policy.  *)
(***************************************************************************)

\* n_b: the classes of image b whose effective probability is at least the
\* threshold of the active mode
CountAtLeast(b) ==
    Cardinality({c \in ClassesOf(b) : label_prob[b][c] >= ModeThr})

Clamp(n, lo, hi) == IF n < lo THEN lo ELSE IF n > hi THEN hi ELSE n

\* C16: the retain count k_b is exactly clamp(n_b, min_b, max_b), where n_b
\* counts the classes whose effective probability is at least (inclusive)
\* the threshold of the active mode.
C16_RetainCountIsClamp ==
    pc # "call" =>
        \A b \in BatchImages :
            num_train[b] = Clamp(CountAtLeast(b), MinOf(b), MaxOf(b))

\* C16 witness: an evaluation call in which a class sits exactly on the
\* threshold, is counted, and the count passes between the bounds
\* unchanged.
C16_Witness ==
    /\ pc = "done"
    /\ ~training
    /\ \E b \in BatchImages :
          /\ MinOf(b) < num_train[b]
          /\ num_train[b] < MaxOf(b)
          /\ num_train[b] = CountAtLeast(b)
          /\ \E c \in ClassesOf(b) : label_prob[b][c] = ModeThr

\* the classes emitted for image b
Retained(b) == {cls_idx[b + 1][i] : i \in 1 .. Len(cls_idx[b + 1])}

\* no class left out has a strictly higher probability than a class kept
HighestKept(b) ==
    \A r \in Retained(b) : \A u \in ClassesOf(b) \ Retained(b) :
        label_prob[b][u] <= label_prob[b][r]

\* C17 as stated: the classes retained for image b are k_b classes of
\* highest effective probability, emitted in ascending class-index order.
C17_HighestRetainCountClasses ==
    \A b \in Handled :
        /\ Cardinality(Retained(b)) = num_train[b]
        /\ Len(cls_idx[b + 1]) = num_train[b]
        /\ HighestKept(b)
        /\ StrictlyIncreasing(cls_idx[b + 1])

\* C17 amended: the classes retained for image b are min(k_b, C) classes
\* of highest effective probability, emitted in ascending class-index
\* order.
C17_HighestCappedCountClasses ==
    \A b \in Handled :
        /\ Cardinality(Retained(b)) = Min2(num_train[b], NumClassesOf(b))
        /\ Len(cls_idx[b + 1]) = Min2(num_train[b], NumClassesOf(b))
        /\ HighestKept(b)
        /\ StrictlyIncreasing(cls_idx[b + 1])

\* C17 witness: an image keeps some but not all of its classes, a class
\* left out is strictly less probable than those kept, and the ascending
\* order emitted is not the score order.
C17_Witness ==
    /\ pc = "done"
    /\ \E b \in BatchImages :
          /\ Len(cls_idx[b + 1]) = num_train[b]
          /\ \E u \in ClassesOf(b) \ Retained(b) : \A r \in Retained(b) :
                label_prob[b][u] < label_prob[b][r]
          /\ \E i, j \in 1 .. Len(cls_idx[b + 1]) :
                /\ i < j
                /\ label_prob[b][cls_idx[b + 1][i]] <
                      label_prob[b][cls_idx[b + 1][j]]

\* C18: the ranking is a stable sort on descending probability: of classes
\* with equal probability the one of lower index ranks first, so a class is
\* left out only when every class kept is more probable, or as probable
\* and of lower index.
C18_StableRanking ==
    \A b \in Handled :
        \A r \in Retained(b) : \A u \in ClassesOf(b) \ Retained(b) :
            \/ label_prob[b][u] < label_prob[b][r]
            \/ label_prob[b][u] = label_prob[b][r] /\ r < u

\* num_classes is supplied and is at least the configured maximum for
\* every image
NumClassesAtLeastMax ==
    /\ num_classes.some
    /\ \A b \in BatchImages : num_classes.val[b] >= ModeMax

\* the retain counts of the scalar path: the same call without num_classes
ScalarPathCounts ==
    NumTrain(NumAboveThr(label_prob, ClassThr(cfg, training)),
             MinClasses(cfg, training, None), MaxClasses(cfg, training, None))

LayerLogits(i) == classifier_out[i]

\* C21: with N >= 2 layers the 'cls_label_logits' of the returned outputs
\* are the logits of layer N-2, and the object decoder is given them as
\* previous_logits.
C21_MainLogitsSecondToLast ==
    (num_blocks >= 2 /\ indicator_return.some) =>
        /\ indicator_return.val.outputs["cls_label_logits"] =
              LayerLogits(num_blocks - 2)
        /\ decoder_calls # <<>> =>
              DecoderInfo.previous_logits = LayerLogits(num_blocks - 2)

\* C21 witness: the object decoder was given the logits of layer N-2 of an
\* indicator whose last layer answered other logits.
C21_Witness ==
    /\ tpc = "done"
    /\ with_prompt_indicator
    /\ num_blocks >= 2
    /\ decoder_calls # <<>>
    /\ DecoderInfo.previous_logits = LayerLogits(num_blocks - 2)
    /\ LayerLogits(num_blocks - 2) # LayerLogits(num_blocks - 1)

\* C22: with retention enabled the retention policy is called once per
\* forward call, only after all N layers have run, and on the logits of
\* the layer whose logits are the main 'cls_label_logits' output.
C22_RetentionOnMainLogits ==
    /\ pc # "idle" =>
          /\ retain
          /\ ipc = "retention"
          /\ lid = num_blocks
          /\ Len(output_label_logits) = num_blocks
          /\ label_logits = outputs["cls_label_logits"]
    /\ (retain /\ ipc \in {"aux", "criterion", "returned"}) =>
          /\ result.some
          /\ label_logits = outputs["cls_label_logits"]
    /\ ipc \in {"idle", "filter", "prompts", "layers", "select"} =>
          ~result.some

\* the layers other than the main one (index N-2), in order
NonMainLayer(i) == IF i - 1 < num_blocks - 2 THEN i - 1 ELSE i

\* C23: the auxiliary outputs hold the logits of every layer except the
\* layer whose logits are the main 'cls_label_logits' output, each once,
\* and not the main layer's logits.
C23_AuxExcludesMainLayer ==
    ipc \in {"criterion", "returned"} =>
        /\ Len(aux_outputs) = num_blocks - 1
        /\ \A i \in 1 .. Len(aux_outputs) :
              aux_outputs[i]["cls_label_logits"] = LayerLogits(NonMainLayer(i))

\* C24: with exactly one layer a forward call cannot complete: after the
\* single layer has run, the main logits at list position -2 raise
\* IndexError, before the retention policy or the criterion is called and
\* without outputs being returned.
C24_SingleLayerFails ==
    (num_blocks = 1 /\ with_prompt_indicator) =>
        /\ ipc \in {"idle", "filter", "prompts", "layers", "raised"}
        /\ pc = "idle"
        /\ ~result.some
        /\ criterion_calls = <<>>
        /\ ~indicator_return.some
        /\ ~transformer_return.some
        /\ outputs = <<>>
        /\ ipc = "raised" =>
              /\ error = "IndexError"
              /\ lid = 1
              /\ Len(output_label_logits) = 1

\* C24 witness: the call of an indicator with one layer has raised
\* IndexError after its one layer and its one classifier call.
C24_Witness ==
    /\ num_blocks = 1
    /\ ipc = "raised"
    /\ error = "IndexError"
    /\ Len(classifier_calls) = 1
    /\ Len(output_feats) = 1
    /\ targets.some

(***************************************************************************)
(* Claims about the label classifiers.                                     *)
(***************************************************************************)

\* C25: the classifier list holds one distinct classifier object per
\* layer: its N entries are pairwise different objects, and changing the
\* classifier of layer i leaves the classifier of every other layer as it
\* was.
C25_DistinctClassifiers ==
    kpc = "listed" =>
        /\ Len(classifier_label) = clf_blocks
        /\ \A i, j \in 1 .. clf_blocks :
              i # j => classifier_label[i] # classifier_label[j]
        /\ changed.some =>
              \A j \in 1 .. clf_blocks :
                  j # changed.layer =>
                      heap[classifier_label[j]] = changed.before[j]

(***************************************************************************)
(* Claims about the feature levels and the stages of Transformer.forward.  *)
(***************************************************************************)

\* the tokens and mask entries PromptIndicator.forward was called with
GivenSrcs ==
    IF direct_kwargs.some THEN SrcFlatten(level_sizes) ELSE t_srcs
GivenMask == MaskFlatten(level_sizes)

\* the level-boundary metadata PromptIndicator.forward was called with
GivenKwargs ==
    IF direct_kwargs.some THEN direct_kwargs.val
    ELSE [src_level_start_index |-> LevelStartIndex(level_sizes)]

\* the entries of level l, in their order
OfLevel(seq, l) == SelectSeq(seq, LAMBDA t : t.lvl = l)

\* the entries of the preserved levels, in level_preserve order
RECURSIVE PreservedEntries(_, _)
PreservedEntries(seq, preserve) ==
    IF preserve = <<>> THEN <<>>
    ELSE OfLevel(seq, Head(preserve)) \o PreservedEntries(seq, Tail(preserve))

\* the positions of PromptIndicator.forward after the filtering
AfterFilter ==
    {"prompts", "layers", "select", "retention", "aux", "criterion", "returned"}

\* C26: when level_preserve is non-empty and the level starts are given,
\* the tokens and the mask are, before any layer runs, the concatenation
\* in level_preserve order of the entries of the listed levels, and the
\* new level starts have one entry per preserved level, entry j being the
\* summed sizes of the preserved levels before j; otherwise tokens, mask
\* and metadata are as given.
C26_LevelFiltering ==
    /\ ipc = "filter" => lid = 0 /\ output_feats = <<>>
    /\ ipc \in AfterFilter =>
          IF Len(level_preserve) > 0
             /\ "src_level_start_index" \in DOMAIN GivenKwargs
          THEN /\ i_srcs = PreservedEntries(GivenSrcs, level_preserve)
               /\ i_mask = PreservedEntries(GivenMask, level_preserve)
               /\ DOMAIN cls_kwargs = DOMAIN GivenKwargs
               /\ Len(cls_kwargs["src_level_start_index"]) = Len(level_preserve)
               /\ \A j \in 1 .. Len(level_preserve) :
                     cls_kwargs["src_level_start_index"][j] =
                         SumSeq([k \in 1 .. (j - 1) |->
                                    level_sizes[level_preserve[k] + 1]])
          ELSE /\ i_srcs = GivenSrcs
               /\ i_mask = GivenMask
               /\ cls_kwargs = GivenKwargs

\* C26 witness: of three levels of different sizes the last and the first
\* are preserved, in that order, and the layers have run on them.
C26_Witness ==
    /\ ipc = "returned"
    /\ Len(level_sizes) = 3
    /\ level_sizes[1] # level_sizes[3]
    /\ level_preserve = <<2, 0>>
    /\ Len(i_srcs) = level_sizes[1] + level_sizes[3]
    /\ i_srcs[1].lvl = 2
    /\ cls_kwargs["src_level_start_index"] = <<0, level_sizes[3]>>

\* the stages the Transformer was built with, in the order of forward
StagesPresent ==
    (IF with_encoder THEN <<"encoder">> ELSE <<>>)
    \o (IF with_prompt_indicator THEN <<"prompt_indicator">> ELSE <<>>)
    \o (IF with_object_decoder THEN <<"object_decoder">> ELSE <<>>)

IsPrefix(p, q) == Len(p) <= Len(q) /\ SubSeq(q, 1, Len(p)) = p

\* C27: the stages that are present run in the order encoder, prompt
\* indicator, object decoder, and a returned call has run each of them
\* once; without an encoder the flattened features are the tokens of the
\* heads; without a prompt indicator the object decoder is given an empty
\* additional_info; without an object decoder the call returns the prompt
\* indicator's outputs and losses and nothing else; without both it
\* returns two empty mappings.
C27_OptionalStagesInOrder ==
    tpc \in {"indicator", "decoder", "done", "raised"}
    /\ ~direct_kwargs.some =>
      /\ IsPrefix(stage_order, StagesPresent)
      /\ tpc = "done" => stage_order = StagesPresent
      /\ ~with_encoder => t_srcs = SrcFlatten(level_sizes)
      /\ ~with_prompt_indicator =>
            /\ ipc = "idle"
            /\ \A k \in 1 .. Len(decoder_calls) :
                  decoder_calls[k].additional_info = <<>>
      /\ ~with_object_decoder =>
            /\ decoder_calls = <<>>
            /\ tpc = "done" /\ with_prompt_indicator =>
                  /\ transformer_return.val.outputs =
                        indicator_return.val.outputs
                  /\ transformer_return.val.loss_dict =
                        indicator_return.val.loss_dict
            /\ tpc = "done" /\ ~with_prompt_indicator =>
                  /\ transformer_return.val.outputs = <<>>
                  /\ transformer_return.val.loss_dict = <<>>

\* C27 witness: a Transformer of a prompt indicator alone has returned the
\* prompt indicator's outputs over the flattened features.
C27_Witness ==
    /\ tpc = "done"
    /\ ~with_encoder
    /\ with_prompt_indicator
    /\ ~with_object_decoder
    /\ stage_order = <<"prompt_indicator">>
    /\ "cls_label_logits" \in DOMAIN transformer_return.val.outputs

\* C28: whatever PromptIndicator.forward did to its tokens, its mask and
\* its keyword mapping, the object decoder is called with all the tokens
\* of the Transformer, the whole mask, and the level starts and spatial
\* shapes of the whole pyramid.
C28_FilteringStaysInIndicator ==
    \A k \in 1 .. Len(decoder_calls) :
        /\ decoder_calls[k].srcs =
              IF with_encoder THEN Encoder(SrcFlatten(level_sizes))
              ELSE SrcFlatten(level_sizes)
        /\ decoder_calls[k].mask = MaskFlatten(level_sizes)
        /\ decoder_calls[k].kwargs["src_level_start_index"] =
              LevelStartIndex(level_sizes)
        /\ decoder_calls[k].kwargs["src_spatial_shapes"] = level_sizes

\* C28 witness: the prompt indicator has kept the last level alone of three
\* and rewritten its level starts, and the object decoder has been called.
C28_Witness ==
    /\ tpc = "done"
    /\ Len(decoder_calls) = 1
    /\ Len(level_sizes) = 3
    /\ level_preserve = <<2>>
    /\ Len(i_srcs) < Len(t_srcs)
    /\ cls_kwargs["src_level_start_index"] = <<0>>
    /\ cls_kwargs["src_level_start_index"] #
          decoder_calls[1].kwargs["src_level_start_index"]

(***************************************************************************)
(* Claims about _ovewrite_named_param and the factories.                   *)
(***************************************************************************)

\* the values the factory called fixes, by name
FixedValue(name) ==
    LET k == CHOOSE i \in 1 .. Len(FactoryParams[factory]) :
                 FactoryParams[factory][i].param = name
    IN  FactoryParams[factory][k].value

FixedNames ==
    {FactoryParams[factory][i].param : i \in 1 .. Len(FactoryParams[factory])}

\* the caller gave a value other than the one the factory fixes
Conflicting ==
    \E name \in FixedNames \cap DOMAIN given_kwargs :
        given_kwargs[name] # FixedValue(name)

\* C29: a call of _ovewrite_named_param on a mapping without the name sets
\* it to the value and touches nothing else; on a mapping with the name at
\* that value it leaves the mapping as it was; on a mapping with the name
\* at another value it raises ValueError and leaves the mapping as it was.
\* A factory given a conflicting groups or width_per_group raises
\* ValueError and constructs no model, and a second call of
\* _ovewrite_named_param ends as the first did.
C29_OverwriteNamedParam ==
    /\ \A k \in 1 .. Len(overwrite_calls) :
          LET c == overwrite_calls[k]
          IN  IF c.param \notin DOMAIN c.before
              THEN /\ ~c.raised
                   /\ DOMAIN c.after = DOMAIN c.before \cup {c.param}
                   /\ c.after[c.param] = c.value
                   /\ \A p \in DOMAIN c.before : c.after[p] = c.before[p]
              ELSE /\ c.after = c.before
                   /\ c.raised <=> c.before[c.param] # c.value
    /\ factory # "none" /\ Conflicting =>
          /\ model = None
          /\ opc \in {"done", "raised"} /\ ~weights.some =>
                opc = "raised" /\ oerror = "ValueError"
    /\ opc = "done" => model.some /\ ~Conflicting
    /\ again =>
          LET n == Len(overwrite_calls)
          IN  /\ overwrite_calls[n].before = overwrite_calls[n - 1].after
              /\ overwrite_calls[n].after = overwrite_calls[n - 1].after
              /\ overwrite_calls[n].raised = overwrite_calls[n - 1].raised

\* C29 witness: resnext50_32x4d was called with width_per_group = 8 alone:
\* groups was set to 32, the width was refused, a second call was refused
\* as well and no model was constructed.
C29_Witness ==
    /\ factory = "resnext50_32x4d"
    /\ given_kwargs = [width_per_group |-> 8]
    /\ opc = "raised"
    /\ oerror = "ValueError"
    /\ again
    /\ kwargs = [groups |-> 32, width_per_group |-> 8]
    /\ model = None

(***************************************************************************)
(* Claims about the stages of ResNet.                                      *)
(***************************************************************************)

RECURSIVE StrideProduct(_)
StrideProduct(ss) ==
    IF ss = <<>> THEN 1 ELSE Head(ss).stride * StrideProduct(Tail(ss))

\* C30: a stage built with dilate applies stride 1 and multiplies the
\* dilation by the stride asked for, a stage built without applies the
\* stride and keeps the dilation; the first block of a stage has the
\* dilation in force before the stage, the later blocks the dilation after
\* it, and only the first block can have a downsample branch; once the
\* four stages are built the product of their strides times self.dilation
\* is 8 and self.inplanes is 512 times block.expansion.
C30_StrideAndDilation ==
    /\ \A k \in 1 .. Len(stages) :
          LET st == stages[k]
              asked == IF k = 1 THEN 1 ELSE 2
              dilate == k > 1 /\ replace_stride_with_dilation[k - 1]
          IN  /\ st.previous_dilation =
                    IF k = 1 THEN 1 ELSE stages[k - 1].dilation
              /\ IF dilate
                 THEN /\ st.stride = 1
                      /\ st.dilation = st.previous_dilation * asked
                 ELSE /\ st.stride = asked
                      /\ st.dilation = st.previous_dilation
              /\ Len(st.blocks) = layers[k]
              /\ st.blocks[1].dilation = st.previous_dilation
              /\ st.blocks[1].stride = st.stride
              /\ \A i \in 2 .. Len(st.blocks) :
                    /\ st.blocks[i].dilation = st.dilation
                    /\ ~st.blocks[i].downsample
                    /\ st.blocks[i].stride = 1
    /\ spc = "stages" /\ stages # <<>> =>
          dilation = stages[Len(stages)].dilation
    /\ spc = "built" =>
          /\ Len(stages) = 4
          /\ Len(replace_stride_with_dilation) = 3
          /\ StrideProduct(stages) * dilation = 8
          /\ inplanes = 512 * Expansion(block)
          /\ fc_in = inplanes

\* C30 witness: a Bottleneck ResNet with the strides of the last two
\* stages replaced by dilation is built, with two blocks in the third
\* stage: the first of them has dilation 1 and the second dilation 2.
C30_Witness ==
    /\ spc = "built"
    /\ block = "Bottleneck"
    /\ replace_stride_with_dilation = <<FALSE, TRUE, TRUE>>
    /\ dilation = 4
    /\ StrideProduct(stages) = 2
    /\ Len(stages[3].blocks) = 2
    /\ stages[3].blocks[1].dilation = 1
    /\ stages[3].blocks[2].dilation = 2
    /\ stages[3].blocks[1].downsample

====
